---- MODULE Spec2Model ----
(***************************************************************************)
(* State machine of multibg-wayland's wallpaper resource engine            *)
(* (src/src/wayland.rs, src/src/gpu.rs, src/src/gpu/memory.rs):            *)
(* the per-output BackgroundLayer list, the reference-counted Wallpaper    *)
(* objects shared between WorkspaceBackground bindings, the DMA-BUF        *)
(* feedback / created / failed handlers with their host-memory fallback,   *)
(* and the workspace queue drained by the main loop.                       *)
(***************************************************************************)
EXTENDS Integers, Sequences, FiniteSets, TLC

\* ---------------------------------------------------------------- bounds

\* How many Wallpaper objects (Rc allocations) holding the image of one
\* canonical file the model lets be alive at once.
MaxCopies == 3
\* Longest workspace queue (mpsc channel) the model lets build up.
MaxQueue == 1

\* ------------------------------------------------------- option encodings

\* Option::None of current_wallpaper / queued_wallpaper / a lookup result.
NoWallpaper == 0
\* Option<Dev>::None.
NoDev == 0

\* ------------------------------------------------------------ environment

\* DRM nodes of the one physical GPU of the machine and the node the
\* compositor names as main device in its feedback.
PrimaryNode == 1
RenderNode == 2

DRM_FORMAT_XRGB8888 == "XR24"
DRM_FORMAT_ARGB8888 == "AR24"
DRM_FORMAT_MOD_LINEAR == 0
\* A vendor tiling modifier the GPU supports for B8G8R8A8_SRGB.
ModTiled == 1

Transforms == {"Normal", "_90"}

OutputNames == {"eDP-1", "HDMI-A-1"}

\* wl_output infos the compositor may report for an output: current mode,
\* logical size, integer scale factor and transform.  The panel eDP-1 has one
\* mode; the monitor HDMI-A-1 has two and may be announced before its mode
\* is known.
OutputInfos == [o \in OutputNames |->
    IF o = "eDP-1" THEN {
        [mode |-> <<4, 4>>, logical_size |-> <<2, 2>>, scale_factor |-> 2,
         transform |-> "Normal"] }
    ELSE {
        [mode |-> <<4, 4>>, logical_size |-> <<2, 2>>, scale_factor |-> 2,
         transform |-> "Normal"],
        [mode |-> <<2, 2>>, logical_size |-> <<1, 1>>, scale_factor |-> 2,
         transform |-> "Normal"],
        [mode |-> <<0, 0>>, logical_size |-> <<2, 2>>, scale_factor |-> 1,
         transform |-> "Normal"] } ]

\* The wallpaper directory: for each output the WallpaperFile entries that
\* output_wallpaper_files returns, in read_dir order.  HDMI-A-1/1:web is a
\* symlink to the file of eDP-1/1, HDMI-A-1/2 is another symlink to it, and
\* HDMI-A-1/7 is not a decodable image.
WallpaperDir == [o \in OutputNames |->
    IF o = "eDP-1" THEN <<
        [workspace |-> "_default", workspace_number |-> -1,
         canon_path |-> "/w/default.jpg", canon_modified |-> 10],
        [workspace |-> "1", workspace_number |-> 1,
         canon_path |-> "/w/one.jpg", canon_modified |-> 20] >>
    ELSE <<
        [workspace |-> "7", workspace_number |-> 7,
         canon_path |-> "/w/broken.jpg", canon_modified |-> 30],
        [workspace |-> "1:web", workspace_number |-> 1,
         canon_path |-> "/w/one.jpg", canon_modified |-> 20],
        [workspace |-> "2", workspace_number |-> 2,
         canon_path |-> "/w/one.jpg", canon_modified |-> 20] >> ]

\* Files on which load_wallpaper returns an error.
UndecodablePaths == {"/w/broken.jpg"}

\* Visible-workspace messages the compositor backend may report.
Workspaces == {
    [workspace_name |-> "1", workspace_number |-> 1],
    [workspace_name |-> "9", workspace_number |-> 9] }

\* Legacy (version < 4) format list of the compositor.
LegacyFormats == <<
    [format |-> DRM_FORMAT_XRGB8888, modifier |-> DRM_FORMAT_MOD_LINEAR],
    [format |-> DRM_FORMAT_XRGB8888, modifier |-> ModTiled] >>

\* Per-surface feedback messages (version >= 4).  formats hold 0-based
\* indices into format_table.
FormatTable == <<
    [format |-> DRM_FORMAT_XRGB8888, modifier |-> DRM_FORMAT_MOD_LINEAR],
    [format |-> DRM_FORMAT_XRGB8888, modifier |-> ModTiled],
    [format |-> DRM_FORMAT_ARGB8888, modifier |-> ModTiled] >>

Feedbacks == {
    [main_device |-> RenderNode, format_table |-> FormatTable,
     tranches |-> << [device |-> PrimaryNode, formats |-> <<1>>],
                     [device |-> RenderNode, formats |-> <<0, 1, 2, 5>>] >>],
    [main_device |-> RenderNode, format_table |-> FormatTable,
     tranches |-> << >>] }

\* A modifier the compositor offers and the GPU does not report.
ModForeign == 2

\* Feedback messages the negotiation cannot use: no tranches, no tranche for
\* the main device, a selected tranche without an XRGB8888 entry, and a
\* selected tranche whose first XRGB8888 modifier the GPU cannot use.
FailingFeedbacks == {
    [main_device |-> RenderNode, format_table |-> FormatTable,
     tranches |-> << >>],
    [main_device |-> RenderNode, format_table |-> FormatTable,
     tranches |-> << [device |-> PrimaryNode, formats |-> <<0, 1>>] >>],
    [main_device |-> RenderNode, format_table |-> FormatTable,
     tranches |-> << [device |-> RenderNode, formats |-> <<2>>] >>],
    [main_device |-> RenderNode,
     format_table |-> <<[format |-> DRM_FORMAT_XRGB8888,
                         modifier |-> ModForeign]>>,
     tranches |-> << [device |-> RenderNode, formats |-> <<0>>] >>] }

\* ------------------------------------------------------------------ state

VARIABLES
    gpu,                \* State.gpu.is_some(): --gpu given and Gpu::new() ok
    dmabuf_version,     \* dmabuf_state.version()
    has_image_drm_format_modifier,
                        \* the GPU offers EXT_image_drm_format_modifier
    outputs,            \* names of the wl_outputs currently announced
    background_layers,  \* State.background_layers: Seq of BackgroundLayer
    wallpapers,         \* the live Rc<RefCell<Wallpaper>> objects, by identity
    rx,                 \* the WorkspaceVisible channel, oldest first
    last,               \* history of the handler that ran last: an
                        \* output_destroyed with the Wallpapers of the
                        \* removed layer it released and kept, a
                        \* handle_sway_event ending in a miss, or (where
                        \* traced) an ignored or failed dmabuf_feedback
    call                \* the function followed on its own, step by step,
                        \* where one is: its inputs, locals and position

\* What no event handler changes.
deployment == <<gpu, dmabuf_version, has_image_drm_format_modifier>>
envvars == <<gpu, dmabuf_version, has_image_drm_format_modifier, call>>
vars == <<gpu, dmabuf_version, has_image_drm_format_modifier, outputs,
          background_layers, wallpapers, rx, last, call>>

Range(s) == {s[i] : i \in DOMAIN s}
Min(a, b) == IF a < b THEN a ELSE b

\* ------------------------------------------------------ accelerator (gpu)

\* What the driver reports for B8G8R8A8_SRGB: the modifiers with
\* TRANSFER_DST in drm_format_props, their plane counts, and the image
\* format limits get_physical_device_image_format_properties2 gives for
\* each of them (the tiled layout takes fewer rows than columns).
DrmFormatProps == {DRM_FORMAT_MOD_LINEAR, ModTiled}
PlaneCount == [m \in DrmFormatProps |->
    IF m = DRM_FORMAT_MOD_LINEAR THEN 1 ELSE 2]
ImageFormatProps == [m \in DrmFormatProps |->
    [max_extent |-> [width |-> 8,
                     height |-> IF m = DRM_FORMAT_MOD_LINEAR THEN 8 ELSE 4],
     max_resource_size |-> 256]]

\* The allocation granularity of the driver's host-visible memory.
BufferAlignment == 16

\* vkGetBufferMemoryRequirements for a buffer of size bytes.
get_buffer_memory_requirements(size) ==
    [size |-> ((size + BufferAlignment - 1) \div BufferAlignment)
                  * BufferAlignment]

NoGpuDevice == [dmabuf_drm_dev |-> NoDev, primary_drm_dev |-> NoDev,
                render_drm_dev |-> NoDev, modifier_ext |-> FALSE]

\* try_device_with_physdev: the GpuDevice made for the requested node.
NewGpuDevice(dmabuf_drm_dev, modifier_ext) ==
    [dmabuf_drm_dev |-> dmabuf_drm_dev, primary_drm_dev |-> PrimaryNode,
     render_drm_dev |-> RenderNode, modifier_ext |-> modifier_ext]

\* GpuDevice::dmabuf_drm_dev_eq
dmabuf_drm_dev_eq(gpu_device, drm_dev) ==
    IF drm_dev # NoDev
    THEN \/ drm_dev = gpu_device.dmabuf_drm_dev
         \/ drm_dev = gpu_device.render_drm_dev
         \/ drm_dev = gpu_device.primary_drm_dev
    ELSE TRUE

\* The assert! of GpuDevice::dmabuf_drm_dev_eq that the comparison passes.
dmabuf_drm_dev_asserted(gpu_device, drm_dev) ==
    (drm_dev # NoDev) = (gpu_device.dmabuf_drm_dev # NoDev)

\* GpuMemory::dmabuf_feedback_eq
dmabuf_feedback_eq(memory, dmabuf_drm_dev, drm_format_modifiers) ==
    /\ dmabuf_drm_dev_eq(memory.gpu_device, dmabuf_drm_dev)
    /\ memory.drm_format_modifier \in Range(drm_format_modifiers)

\* GpuMemory::gpu_uploader_eq
GpuMemory_gpu_uploader_eq(memory, gpu_uploader) ==
    dmabuf_feedback_eq(memory, gpu_uploader.gpu_device.dmabuf_drm_dev,
                       gpu_uploader.drm_format_modifiers)

\* Memory::gpu_uploader_eq
gpu_uploader_eq(memory, gpu_uploader) ==
    IF gpu_uploader.some
    THEN memory.kind = "Dmabuf"
         /\ GpuMemory_gpu_uploader_eq(memory, gpu_uploader)
    ELSE memory.kind = "WlShm"

\* The devices still alive behind Gpu.devices' weak references: those held
\* by the GpuMemory of a live Wallpaper.
LiveDevices(heap) ==
    {heap[w].memory.gpu_device : w \in {x \in DOMAIN heap :
                                        heap[x].memory.kind = "Dmabuf"}}

\* Gpu::select_device followed by device() when none matches.
select_device(heap, dmabuf_drm_dev, modifier_ext) ==
    LET matching == {d \in LiveDevices(heap) :
                        dmabuf_drm_dev_eq(d, dmabuf_drm_dev)}
    IN  IF matching # {} THEN CHOOSE d \in matching : TRUE
        ELSE NewGpuDevice(dmabuf_drm_dev, modifier_ext)

\* memory.rs filter_modifier
filter_modifier(width, height, size, drm_format_modifier) ==
    /\ drm_format_modifier \in DrmFormatProps
    /\ LET image_format_props == ImageFormatProps[drm_format_modifier]
           max_width == image_format_props.max_extent.width
           max_height == image_format_props.max_extent.width
           max_size == image_format_props.max_resource_size
       IN  /\ width <= max_width
           /\ height <= max_height
           /\ size <= max_size

\* The for loop of memory.rs uploader(): the filtered list, or "bail" as soon
\* as the list is still empty after a candidate.
RECURSIVE FilterModifiers(_, _, _, _, _)
FilterModifiers(mods, k, width, height, filtered) ==
    IF k > Len(mods) THEN [ok |-> TRUE, filtered |-> filtered]
    ELSE LET next == IF filter_modifier(width, height, width * height * 4,
                                        mods[k])
                     THEN Append(filtered, mods[k]) ELSE filtered
         IN  IF next = << >> THEN [ok |-> FALSE, filtered |-> << >>]
             ELSE FilterModifiers(mods, k + 1, width, height, next)

NoUploader == [some |-> FALSE, gpu_device |-> NoGpuDevice,
               drm_format_modifiers |-> << >>, requested |-> {},
               extent |-> [width |-> 0, height |-> 0], len |-> 0]

\* memory.rs uploader(): Ok(GpuUploader) as a record with some = TRUE, Err
\* as NoUploader.  requested remembers the candidate list of the
\* negotiation; the staging buffer is made and mapped.
memory_uploader(gpu_device, width, height, drm_format_modifiers) ==
    LET size == width * height * 4
        f == FilterModifiers(drm_format_modifiers, 1, width, height, << >>)
        buffer_memory_req == get_buffer_memory_requirements(size)
        made(filtered) ==
            [some |-> TRUE, gpu_device |-> gpu_device,
             drm_format_modifiers |-> filtered,
             requested |-> Range(drm_format_modifiers),
             extent |-> [width |-> width, height |-> height],
             len |-> buffer_memory_req.size]
    IN  IF gpu_device.modifier_ext
        THEN IF f.ok THEN made(f.filtered) ELSE NoUploader
        ELSE IF DRM_FORMAT_MOD_LINEAR \in Range(drm_format_modifiers)
             THEN made(<< >>) ELSE NoUploader

\* Gpu::uploader: the device selected or made, then memory.rs uploader().
uploader(heap, dmabuf_drm_dev, modifier_ext, width, height, drm_format_modifiers) ==
    memory_uploader(select_device(heap, dmabuf_drm_dev, modifier_ext),
                    width, height, drm_format_modifiers)

\* The modifier the driver realizes for an image created with a modifier
\* list: this driver prefers its tiled layout.
DriverModifier(drm_format_modifiers) ==
    IF ModTiled \in Range(drm_format_modifiers) THEN ModTiled
    ELSE DRM_FORMAT_MOD_LINEAR

\* memory.rs upload(), the success path: the GpuWallpaper.
upload(gpu_uploader) ==
    LET m == IF gpu_uploader.gpu_device.modifier_ext
             THEN DriverModifier(gpu_uploader.drm_format_modifiers)
             ELSE DRM_FORMAT_MOD_LINEAR
    IN  [drm_format_modifier |-> m,
         memory_planes_len |-> IF gpu_uploader.gpu_device.modifier_ext
                               THEN PlaneCount[m] ELSE 1,
         gpu_memory |-> [kind |-> "Dmabuf",
                         gpu_device |-> gpu_uploader.gpu_device,
                         drm_format_modifier |-> m,
                         params |-> TRUE]]

\* -------------------------------------------------------- wallpaper cache

\* Memory::WlShm { pool }
WlShmMemory == [kind |-> "WlShm", gpu_device |-> NoGpuDevice,
                drm_format_modifier |-> DRM_FORMAT_MOD_LINEAR,
                params |-> FALSE]

\* The dedup key a load is made under (section 3 of the specification):
\* file identity, target geometry, backend class and, for accelerator
\* backing, the device and the modifier set of the negotiation.
DedupKey(file, width, height, transform, gpu_uploader) ==
    [canon_path |-> file.canon_path, canon_modified |-> file.canon_modified,
     width |-> width, height |-> height, transform |-> transform,
     backend |-> IF gpu_uploader.some THEN "Dmabuf" ELSE "WlShm",
     device |-> gpu_uploader.gpu_device,
     modifiers |-> gpu_uploader.requested]

\* The first of the positions hits of a sequence, 0 when there is none
\* (Iterator::find / position over the elements satisfying a test).
FirstIndex(hits) ==
    IF hits # {}
    THEN CHOOSE i \in hits : \A j \in hits : i <= j
    ELSE 0

\* The test shared by find_equal_wallpaper and find_equal_output_wallpaper.
wallpaper_matches(wallpaper, wallpaper_file, gpu_uploader) ==
    /\ wallpaper.canon_modified = wallpaper_file.canon_modified
    /\ wallpaper.canon_path = wallpaper_file.canon_path
    /\ gpu_uploader_eq(wallpaper.memory, gpu_uploader)

\* wayland.rs find_equal_output_wallpaper
find_equal_output_wallpaper(heap, workspace_backgrounds, wallpaper_file, gpu_uploader) ==
    LET hit(bg) == wallpaper_matches(heap[bg.wallpaper], wallpaper_file,
                                     gpu_uploader)
        j == FirstIndex({ix \in DOMAIN workspace_backgrounds : hit(workspace_backgrounds[ix])})
    IN  IF j = 0 THEN NoWallpaper ELSE workspace_backgrounds[j].wallpaper

\* A search of all outputs that does not compare the geometry.
find_any_size(heap, layers, width, height, transform, wallpaper_file, gpu_uploader) ==
    LET hit(bg) == wallpaper_matches(heap[bg.wallpaper], wallpaper_file,
                                     gpu_uploader)
        layer_hit(bg_layer) ==
            FirstIndex({ix \in DOMAIN bg_layer.workspace_backgrounds :
                          hit(bg_layer.workspace_backgrounds[ix])}) # 0
        i == FirstIndex({ix \in DOMAIN layers : layer_hit(layers[ix])})
    IN  IF i = 0 THEN NoWallpaper
        ELSE layers[i].workspace_backgrounds[
                 FirstIndex({ix \in DOMAIN layers[i].workspace_backgrounds :
                             hit(layers[i].workspace_backgrounds[ix])})].wallpaper

\* wayland.rs find_equal_wallpaper
find_equal_wallpaper(heap, layers, width, height, transform, wallpaper_file, gpu_uploader) ==
    LET hit(bg) == wallpaper_matches(heap[bg.wallpaper], wallpaper_file,
                                     gpu_uploader)
        layer_hit(bg_layer) ==
            /\ bg_layer.width = width
            /\ bg_layer.height = height
            /\ bg_layer.transform = transform
            /\ FirstIndex({ix \in DOMAIN bg_layer.workspace_backgrounds :
                             hit(bg_layer.workspace_backgrounds[ix])}) # 0
        i == FirstIndex({ix \in DOMAIN layers : layer_hit(layers[ix])})
    IN  IF i = 0 THEN NoWallpaper
        ELSE layers[i].workspace_backgrounds[
                 FirstIndex({ix \in DOMAIN layers[i].workspace_backgrounds :
                             hit(layers[i].workspace_backgrounds[ix])})].wallpaper

\* Rc::new: the identity (address) of a newly allocated Wallpaper.  The
\* allocation made for a canonical file takes the first free identity of the
\* MaxCopies set aside for that file.
ImageFiles == <<"/w/default.jpg", "/w/one.jpg">>
CanonPaths == Range(ImageFiles)
FamilyIds(canon_path) ==
    LET f == CHOOSE i \in DOMAIN ImageFiles : ImageFiles[i] = canon_path
    IN  {(f - 1) * MaxCopies + c : c \in 1..MaxCopies}
WallpaperIds == UNION {FamilyIds(c) : c \in CanonPaths}
FreshId(heap, canon_path) ==
    CHOOSE i \in FamilyIds(canon_path) \ DOMAIN heap :
        \A j \in FamilyIds(canon_path) \ DOMAIN heap : i <= j

WorkspaceBackground(wallpaper_file, wallpaper) ==
    [workspace_name |-> wallpaper_file.workspace,
     workspace_number |-> wallpaper_file.workspace_number,
     wallpaper |-> wallpaper]

\* One record of decode/upload work: the key it was done under and whether
\* a live Wallpaper with that key existed at that moment.
LoadRecord(heap, key) ==
    [key |-> key, had_live |-> \E w \in DOMAIN heap : heap[w].key = key]

\* The body of the for loop of load_wallpapers for the file at position k
\* and the files after it.  acc carries the local workspace_backgrounds, the
\* heap, the (possibly dropped) gpu_uploader, ok_uploads: how many more
\* uploads the GPU completes before GpuUploader::upload returns an error,
\* and the work done.
RECURSIVE load_loop(_, _, _, _, _, _, _, _)
load_loop(output_name, files, k, layers, width, height, transform, acc) ==
    IF k > Len(files) THEN acc
    ELSE
    LET file == files[k]
        own == find_equal_output_wallpaper(acc.heap,
                   acc.workspace_backgrounds, file, acc.gpu_uploader)
        other == find_equal_wallpaper(acc.heap, layers, width, height,
                     transform, file, acc.gpu_uploader)
        decodes == file.canon_path \notin UndecodablePaths
        rest(a) == load_loop(output_name, files, k + 1, layers, width,
                             height, transform, a)
        reuse(w) == rest([acc EXCEPT
            !.workspace_backgrounds = Append(@, WorkspaceBackground(file, w)),
            !.reused_count = @ + 1])
        id == FreshId(acc.heap, file.canon_path)
        gpu_key == DedupKey(file, width, height, transform, acc.gpu_uploader)
        shm_key == DedupKey(file, width, height, transform, NoUploader)
        uploaded == rest([acc EXCEPT
            !.workspace_backgrounds = Append(@, WorkspaceBackground(file, id)),
            !.heap = (id :> [wl_buffer |-> FALSE,
                             memory |-> upload(acc.gpu_uploader).gpu_memory,
                             canon_path |-> file.canon_path,
                             canon_modified |-> file.canon_modified,
                             key |-> gpu_key]) @@ @,
            !.ok_uploads = @ - 1,
            !.work = @ \cup {LoadRecord(acc.heap, gpu_key)},
            !.fds = Append(@, upload(acc.gpu_uploader).memory_planes_len),
            !.loaded_count = @ + 1])
        \* the host-memory path, with the uploader as left by the GPU path
        shm(a) ==
            IF decodes
            THEN rest([a EXCEPT
                !.workspace_backgrounds =
                    Append(@, WorkspaceBackground(file, id)),
                !.heap = (id :> [wl_buffer |-> TRUE,
                                 memory |-> WlShmMemory,
                                 canon_path |-> file.canon_path,
                                 canon_modified |-> file.canon_modified,
                                 key |-> shm_key]) @@ @,
                !.work = @ \cup {LoadRecord(a.heap, shm_key)},
                !.fds = Append(@, 1),
                !.loaded_count = @ + 1])
            ELSE rest([a EXCEPT !.fds = Append(@, 1),
                                !.error_count = @ + 1])
    IN  IF own # NoWallpaper THEN reuse(own)
        ELSE IF other # NoWallpaper THEN reuse(other)
        ELSE IF acc.gpu_uploader.some
        THEN IF ~decodes THEN rest([acc EXCEPT !.error_count = @ + 1])
             ELSE IF acc.ok_uploads > 0 THEN uploaded
             ELSE shm([acc EXCEPT !.gpu_uploader = NoUploader])
        ELSE shm(acc)

\* A load that gives up at the first file it cannot decode.
load_until_error(layers, heap, bg_layer_index, gpu_uploader, ok_uploads) ==
    LET bg_layer == layers[bg_layer_index]
        files == WallpaperDir[bg_layer.output_name]
        broken == {k \in DOMAIN files :
                      files[k].canon_path \in UndecodablePaths}
        upto == IF broken = {} THEN Len(files)
                ELSE (CHOOSE k \in broken : \A j \in broken : k <= j) - 1
        done == load_loop(bg_layer.output_name, SubSeq(files, 1, upto), 1,
                    layers, bg_layer.width, bg_layer.height,
                    bg_layer.transform,
                    [workspace_backgrounds |-> << >>, heap |-> heap,
                     gpu_uploader |-> gpu_uploader,
                     ok_uploads |-> ok_uploads, work |-> {},
                     fds |-> << >>, reused_count |-> 0,
                     loaded_count |-> 0, error_count |-> 0])
    IN  [layers |-> [layers EXCEPT ![bg_layer_index].workspace_backgrounds =
                                       done.workspace_backgrounds],
         heap |-> done.heap,
         work |-> done.work,
         fds |-> done.fds,
         reused_count |-> done.reused_count,
         loaded_count |-> done.loaded_count,
         error_count |-> IF broken = {} THEN 0 ELSE 1]

\* wayland.rs load_wallpapers for background_layers[bg_layer_index]: the
\* result of the loop and the layers with the new bindings installed.
load_wallpapers(layers, heap, bg_layer_index, gpu_uploader, ok_uploads) ==
    LET bg_layer == layers[bg_layer_index]
        done == load_loop(bg_layer.output_name,
                    WallpaperDir[bg_layer.output_name], 1, layers,
                    bg_layer.width, bg_layer.height, bg_layer.transform,
                    [workspace_backgrounds |-> << >>, heap |-> heap,
                     gpu_uploader |-> gpu_uploader,
                     ok_uploads |-> ok_uploads, work |-> {},
                     fds |-> << >>, reused_count |-> 0,
                     loaded_count |-> 0, error_count |-> 0])
    IN  [layers |-> [layers EXCEPT ![bg_layer_index].workspace_backgrounds =
                                       done.workspace_backgrounds],
         heap |-> done.heap,
         work |-> done.work,
         fds |-> done.fds,
         reused_count |-> done.reused_count,
         loaded_count |-> done.loaded_count,
         error_count |-> done.error_count]

\* ------------------------------------------------- shared ownership (Rc)

\* The Wallpapers some Rc still points to: every binding and every
\* current_wallpaper (queued_wallpaper is a Weak and does not count).
StrongRefs(layers) ==
    UNION {{bg.wallpaper : bg \in Range(layers[i].workspace_backgrounds)}
           \cup ({layers[i].current_wallpaper} \ {NoWallpaper})
           : i \in DOMAIN layers}

\* A heap from which nothing is ever released: every Wallpaper outlives its
\* last reference.
keep_alive(layers, heap) == [heap |-> heap, layers |-> layers]

\* impl Drop for Wallpaper, run when the last Rc goes away: the wl_buffer is
\* destroyed and the memory released, so the object leaves the heap.  A Weak
\* to it upgrades to None from then on, which no handler tells from no
\* queued wallpaper: it is recorded as NoWallpaper.
drop_unreferenced(layers, heap) ==
    LET live == DOMAIN heap \cap StrongRefs(layers)
    IN  [heap |-> [w \in live |-> heap[w]],
         layers |-> [i \in DOMAIN layers |->
            [layers[i] EXCEPT !.queued_wallpaper =
                IF @ \in live THEN @ ELSE NoWallpaper]]]

\* -------------------------------------------------------- draw dispatch

\* A resolution that prefers `_default` to the workspace's own wallpaper.
resolve_default_first(workspace_backgrounds, workspace_name, workspace_number) ==
    LET by_name == {ix \in DOMAIN workspace_backgrounds :
            workspace_backgrounds[ix].workspace_name = workspace_name}
        by_default == {ix \in DOMAIN workspace_backgrounds :
            workspace_backgrounds[ix].workspace_name = "_default"}
    IN  IF by_default # {} THEN FirstIndex(by_default)
        ELSE FirstIndex(by_name)

\* The binding draw_workspace_bg resolves: the first by exact name, else the
\* first by number, else the first named `_default`; 0 when there is none.
resolve_workspace_bg(workspace_backgrounds, workspace_name, workspace_number) ==
    LET by_name == {ix \in DOMAIN workspace_backgrounds :
            workspace_backgrounds[ix].workspace_name = workspace_name}
        by_number == {ix \in DOMAIN workspace_backgrounds :
            workspace_backgrounds[ix].workspace_number = workspace_number}
        by_default == {ix \in DOMAIN workspace_backgrounds :
            workspace_backgrounds[ix].workspace_name = "_default"}
    IN  IF by_name # {} THEN FirstIndex(by_name)
        ELSE IF by_number # {} THEN FirstIndex(by_number)
        ELSE FirstIndex(by_default)

\* A draw that does not look at the layer's configured flag.
draw_unconfigured(bg_layer, heap, workspace_name, workspace_number) ==
    LET j == resolve_workspace_bg(bg_layer.workspace_backgrounds,
                                  workspace_name, workspace_number)
        wallpaper == bg_layer.workspace_backgrounds[j].wallpaper
    IN  IF j = 0 THEN bg_layer
        ELSE IF bg_layer.current_wallpaper = wallpaper THEN bg_layer
        ELSE IF ~heap[wallpaper].wl_buffer
        THEN [bg_layer EXCEPT !.queued_wallpaper = wallpaper]
        ELSE [bg_layer EXCEPT !.current_wallpaper = wallpaper,
                              !.queued_wallpaper = NoWallpaper]

\* BackgroundLayer::draw_workspace_bg: the layer afterwards.
draw_workspace_bg(bg_layer, heap, workspace_name, workspace_number) ==
    LET j == resolve_workspace_bg(bg_layer.workspace_backgrounds,
                                  workspace_name, workspace_number)
        wallpaper == bg_layer.workspace_backgrounds[j].wallpaper
    IN  IF ~bg_layer.configured THEN bg_layer
        ELSE IF j = 0 THEN bg_layer
        ELSE IF bg_layer.current_wallpaper = wallpaper THEN bg_layer
        ELSE IF ~heap[wallpaper].wl_buffer
        THEN [bg_layer EXCEPT !.queued_wallpaper = wallpaper]
        ELSE [bg_layer EXCEPT !.current_wallpaper = wallpaper,
                              !.queued_wallpaper = NoWallpaper]

\* main.rs handle_sway_event: every queued message in turn.
RECURSIVE handle_sway_event(_, _, _)
handle_sway_event(msgs, layers, heap) ==
    IF msgs = << >> THEN [layers |-> layers, heap |-> heap]
    ELSE
    LET workspace == Head(msgs)
        on_output(bg_layer) == bg_layer.output_name = workspace.output
        i == FirstIndex({ix \in DOMAIN layers : on_output(layers[ix])})
        drawn == drop_unreferenced(
            [layers EXCEPT ![i] = draw_workspace_bg(layers[i], heap,
                workspace.workspace_name, workspace.workspace_number)],
            heap)
    IN  IF i = 0 THEN handle_sway_event(Tail(msgs), layers, heap)
        ELSE handle_sway_event(Tail(msgs), drawn.layers, drawn.heap)

\* ------------------------------------------------- zero-copy negotiation

\* A fallback that only gives up the feedback handle: the bindings stay.
discard_feedback_only(layers, heap, bg_layer_index) ==
    [layers |-> [layers EXCEPT ![bg_layer_index].dmabuf_feedback = FALSE],
     heap |-> heap]

\* wayland.rs fallback_shm_load_wallpapers
fallback_shm_load_wallpapers(layers, heap, bg_layer_index) ==
    LET cleared == drop_unreferenced(
            [layers EXCEPT ![bg_layer_index].dmabuf_feedback = FALSE,
                           ![bg_layer_index].workspace_backgrounds = << >>],
            heap)
    IN  load_wallpapers(cleared.layers, cleared.heap, bg_layer_index,
                        NoUploader, 0)

\* A tranche chosen by its position alone.
first_tranche(feedback) ==
    IF feedback.tranches = << >> THEN 0 ELSE 1

\* The tranche handle_dmabuf_feedback selects: the first whose target device
\* is the main device; 0 when there is none.
selected_tranche(feedback) ==
    LET targets_main(tranche) == tranche.device = feedback.main_device
    IN  FirstIndex({ix \in DOMAIN feedback.tranches : targets_main(feedback.tranches[ix])})

\* The modifiers of the format table entries a tranche lists for XRGB8888,
\* in listed order; indices outside the table are skipped.
RECURSIVE tranche_modifiers(_, _, _)
tranche_modifiers(format_table, formats, k) ==
    IF k > Len(formats) THEN << >>
    ELSE LET index == formats[k]
             tail == tranche_modifiers(format_table, formats, k + 1)
         IN  IF index + 1 \in DOMAIN format_table
                /\ format_table[index + 1].format = DRM_FORMAT_XRGB8888
             THEN <<format_table[index + 1].modifier>> \o tail
             ELSE tail

\* wayland.rs handle_dmabuf_feedback: ok = FALSE stands for Err(..), in
\* which case nothing has been changed.
handle_dmabuf_feedback(layers, heap, modifier_ext, feedback, bg_layer_pos, ok_uploads) ==
    LET bg_layer == layers[bg_layer_pos]
        index == selected_tranche(feedback)
        drm_format_modifiers ==
            tranche_modifiers(feedback.format_table,
                              feedback.tranches[index].formats, 1)
        dmabuf_drm_dev == feedback.main_device
        unchanged_feedback ==
            /\ bg_layer.workspace_backgrounds # << >>
            /\ \A bg \in Range(bg_layer.workspace_backgrounds) :
                  /\ heap[bg.wallpaper].memory.kind = "Dmabuf"
                  /\ dmabuf_feedback_eq(heap[bg.wallpaper].memory,
                                        dmabuf_drm_dev, drm_format_modifiers)
        gpu_uploader == uploader(heap, dmabuf_drm_dev, modifier_ext,
                                 bg_layer.width, bg_layer.height,
                                 drm_format_modifiers)
        cleared == drop_unreferenced(
            [layers EXCEPT ![bg_layer_pos].workspace_backgrounds = << >>],
            heap)
        loaded == load_wallpapers(cleared.layers, cleared.heap,
                                  bg_layer_pos, gpu_uploader, ok_uploads)
        err == [ok |-> FALSE, noop |-> FALSE, layers |-> layers,
                heap |-> heap, work |-> {}]
    IN  IF feedback.tranches = << >> THEN err
        ELSE IF index = 0 THEN err
        ELSE IF drm_format_modifiers = << >> THEN err
        ELSE IF unchanged_feedback
        THEN [ok |-> TRUE, noop |-> TRUE, layers |-> layers, heap |-> heap,
              work |-> {}]
        ELSE IF ~gpu_uploader.some THEN err
        ELSE [ok |-> TRUE, noop |-> FALSE, layers |-> loaded.layers,
              heap |-> loaded.heap, work |-> loaded.work]

\* ------------------------------------------------------- output handling

\* Option<WpViewport>::None.
NoViewport == << >>

\* The transform-adjusted pixel size of new_output / update_output.
transformed_size(mode, transform) ==
    IF transform \in {"_90", "_270", "Flipped90", "Flipped270"}
    THEN <<mode[2], mode[1]>> ELSE mode

\* The scaling branch of new_output, on a fresh surface (buffer scale 1, no
\* viewport): the buffer scale and the viewport destination it leaves.
new_output_scaling(width, height, logical_width, logical_height, integer_scale_factor) ==
    IF width = logical_width \/ height = logical_height
    THEN [buffer_scale |-> 1, viewport |-> NoViewport]
    ELSE IF /\ width = logical_width * integer_scale_factor
            /\ height = logical_height * integer_scale_factor
    THEN [buffer_scale |-> integer_scale_factor, viewport |-> NoViewport]
    ELSE [buffer_scale |-> 1,
          viewport |-> <<logical_width, logical_height>>]

\* The scaling branch of update_output.
update_output_scaling(width, height, logical_width, logical_height, integer_scale_factor) ==
    IF width = logical_width \/ height = logical_height
    THEN [buffer_scale |-> 1, viewport |-> NoViewport]
    ELSE IF /\ width = logical_width * integer_scale_factor
            /\ height = logical_height * integer_scale_factor
    THEN [buffer_scale |-> integer_scale_factor, viewport |-> NoViewport]
    ELSE [buffer_scale |-> 1,
          viewport |-> <<logical_width, logical_height>>]

\* new_output and update_output skip an output without a positive current
\* mode or logical size.
usable_info(info) ==
    /\ info.mode[1] > 0 /\ info.mode[2] > 0
    /\ info.logical_size[1] > 0 /\ info.logical_size[2] > 0

\* The modifiers new_output takes from the legacy format list.
legacy_modifiers ==
    tranche_modifiers(LegacyFormats,
                      [i \in DOMAIN LegacyFormats |-> i - 1], 1)

\* How many uploads the GPU may complete before one fails, within one load
\* for the output: one, or all of them.
UploadBudgets(output_name) == {1, Len(WallpaperDir[output_name])}

HasRoom(heap, output_name) ==
    LET files == WallpaperDir[output_name]
    IN  \A c \in CanonPaths :
            Cardinality({k \in DOMAIN files : files[k].canon_path = c})
                <= Cardinality(FamilyIds(c) \ DOMAIN heap)

Did(op) == [op |-> op, output |-> "", released |-> {}, kept |-> {}]

\* State::new in main.rs: no output announced yet, nothing loaded, the
\* channel empty.
Blank ==
    /\ outputs = {}
    /\ background_layers = << >>
    /\ wallpapers = << >>
    /\ rx = << >>
    /\ last = Did("other")

\* No function is followed on its own.
NoCall == [fn |-> "none"]

Constructed == Blank /\ call = NoCall

\* Waker::wake() after a tx.send(): the wake primitive of the followed main
\* loop, if any, becomes readable.
wake(sent) ==
    IF sent /\ "waker" \in DOMAIN call THEN [call EXCEPT !.waker = TRUE]
    ELSE call

\* The deployment: whether --gpu gave an accelerator, the compositor's
\* linux-dmabuf version, and whether the GPU has the modifier extension.
Deployment(with_gpu, version, modifier_ext) ==
    /\ gpu = with_gpu
    /\ dmabuf_version = version
    /\ has_image_drm_format_modifier = modifier_ext

\* Without --gpu, or with a GPU that has the modifier extension under a
\* compositor that sends per-surface feedback.
Init ==
    /\ Deployment(FALSE, 4, FALSE) \/ Deployment(TRUE, 4, TRUE)
    /\ Constructed

\* With a GPU under a compositor that has only the legacy format list.
LegacyInit ==
    /\ \E modifier_ext \in BOOLEAN : Deployment(TRUE, 3, modifier_ext)
    /\ Constructed

\* An output that loads its wallpapers into host memory at once and asks
\* for feedback as well.
eager_new_output(output_name, info, feedback_requested, ok_uploads) ==
    LET size == transformed_size(info.mode, info.transform)
        width == size[1]
        height == size[2]
        scaling == new_output_scaling(width, height, info.logical_size[1],
                       info.logical_size[2], info.scale_factor)
        dmabuf_feedback == gpu /\ dmabuf_version >= 4 /\ feedback_requested
        gpu_uploader ==
            IF gpu /\ dmabuf_version < 4
            THEN uploader(wallpapers, NoDev, has_image_drm_format_modifier,
                          width, height, legacy_modifiers)
            ELSE NoUploader
        bg_layer_index == Len(background_layers) + 1
        pushed == Append(background_layers,
            [output_name |-> output_name, width |-> width,
             height |-> height, configured |-> FALSE,
             workspace_backgrounds |-> << >>,
             current_wallpaper |-> NoWallpaper,
             queued_wallpaper |-> NoWallpaper,
             transform |-> info.transform,
             viewport |-> scaling.viewport,
             buffer_scale |-> scaling.buffer_scale,
             dmabuf_feedback |-> dmabuf_feedback])
        loaded == load_wallpapers(pushed, wallpapers, bg_layer_index,
                                  gpu_uploader, ok_uploads)
    IN  /\ output_name \notin outputs
        /\ HasRoom(wallpapers, output_name)
        /\ outputs' = outputs \cup {output_name}
        /\ IF ~usable_info(info)
           THEN /\ UNCHANGED <<background_layers, wallpapers>>
                /\ last' = Did("other")
           ELSE /\ background_layers' = loaded.layers
                /\ wallpapers' = loaded.heap
                /\ last' = Did("other")
        /\ UNCHANGED <<envvars, rx>>

\* OutputHandler::new_output for the output named output_name.
\* feedback_requested: get_surface_feedback returned Ok.
new_output(output_name, info, feedback_requested, ok_uploads) ==
    LET size == transformed_size(info.mode, info.transform)
        width == size[1]
        height == size[2]
        scaling == new_output_scaling(width, height, info.logical_size[1],
                       info.logical_size[2], info.scale_factor)
        dmabuf_feedback == gpu /\ dmabuf_version >= 4 /\ feedback_requested
        gpu_uploader ==
            IF gpu /\ dmabuf_version < 4
            THEN uploader(wallpapers, NoDev, has_image_drm_format_modifier,
                          width, height, legacy_modifiers)
            ELSE NoUploader
        bg_layer_index == Len(background_layers) + 1
        pushed == Append(background_layers,
            [output_name |-> output_name, width |-> width,
             height |-> height, configured |-> FALSE,
             workspace_backgrounds |-> << >>,
             current_wallpaper |-> NoWallpaper,
             queued_wallpaper |-> NoWallpaper,
             transform |-> info.transform,
             viewport |-> scaling.viewport,
             buffer_scale |-> scaling.buffer_scale,
             dmabuf_feedback |-> dmabuf_feedback])
        loaded == load_wallpapers(pushed, wallpapers, bg_layer_index,
                                  gpu_uploader, ok_uploads)
    IN  /\ output_name \notin outputs
        /\ HasRoom(wallpapers, output_name)
        /\ outputs' = outputs \cup {output_name}
        /\ IF ~usable_info(info)
           THEN /\ UNCHANGED <<background_layers, wallpapers>>
                /\ last' = Did("other")
           ELSE IF dmabuf_feedback
           THEN /\ background_layers' = pushed
                /\ UNCHANGED wallpapers
                /\ last' = Did("other")
           ELSE /\ background_layers' = loaded.layers
                /\ wallpapers' = loaded.heap
                /\ last' = Did("other")
        /\ UNCHANGED <<envvars, rx>>

NewOutput ==
    \E output_name \in OutputNames, feedback_requested \in BOOLEAN :
        \E info \in OutputInfos[output_name],
           ok_uploads \in UploadBudgets(output_name) :
            new_output(output_name, info, feedback_requested, ok_uploads)

\* An update that takes over the reported pixel size.
resize_on_update(output_name, info) ==
    LET size == transformed_size(info.mode, info.transform)
        named(bg_layer) == bg_layer.output_name = output_name
        i == FirstIndex({ix \in DOMAIN background_layers :
                                 named(background_layers[ix])})
    IN  /\ output_name \in outputs
        /\ IF usable_info(info) /\ i # 0
           THEN background_layers' = [background_layers EXCEPT
                    ![i].width = size[1], ![i].height = size[2]]
           ELSE UNCHANGED background_layers
        /\ last' = Did("other")
        /\ UNCHANGED <<envvars, outputs, wallpapers, rx>>

\* OutputHandler::update_output
update_output(output_name, info) ==
    LET size == transformed_size(info.mode, info.transform)
        scaling == update_output_scaling(size[1], size[2],
                       info.logical_size[1], info.logical_size[2],
                       info.scale_factor)
        named(bg_layer) == bg_layer.output_name = output_name
        i == FirstIndex({ix \in DOMAIN background_layers :
                                 named(background_layers[ix])})
    IN  /\ output_name \in outputs
        /\ IF usable_info(info) /\ i # 0
           THEN background_layers' = [background_layers EXCEPT
                    ![i].viewport = scaling.viewport,
                    ![i].buffer_scale = scaling.buffer_scale]
           ELSE UNCHANGED background_layers
        /\ last' = Did("other")
        /\ UNCHANGED <<envvars, outputs, wallpapers, rx>>

UpdateOutput ==
    \E output_name \in OutputNames :
        \E info \in OutputInfos[output_name] :
            update_output(output_name, info)

\* Vec::swap_remove
swap_remove(s, i) ==
    [k \in 1..(Len(s) - 1) |-> IF k = i THEN s[Len(s)] ELSE s[k]]

\* A WorkspaceVisible message.
WorkspaceVisible(output, workspace) ==
    [output |-> output, workspace_name |-> workspace.workspace_name,
     workspace_number |-> workspace.workspace_number]

\* OutputHandler::output_destroyed.  request_visible_workspaces queues the
\* visible workspace of every output the compositor still has.
output_destroyed(output_name, visible) ==
    LET named(bg_layer) == bg_layer.output_name = output_name
        bg_layer_index == FirstIndex({ix \in DOMAIN background_layers :
                                 named(background_layers[ix])})
        dropped == drop_unreferenced(
                       swap_remove(background_layers, bg_layer_index),
                       wallpapers)
    IN  /\ output_name \in outputs
        /\ outputs' = outputs \ {output_name}
        /\ IF bg_layer_index # 0
           THEN /\ Len(rx) + Len(visible) <= MaxQueue
                /\ Range(visible) \subseteq
                       {m \in Range(visible) : m.output \in outputs'}
                /\ \A o \in outputs' :
                       Cardinality({k \in DOMAIN visible :
                                        visible[k].output = o}) = 1
                /\ background_layers' = dropped.layers
                /\ wallpapers' = dropped.heap
                /\ rx' = rx \o visible
                /\ last' = [Did("output_destroyed") EXCEPT
                       !.output = output_name,
                       !.released = DOMAIN wallpapers \ DOMAIN dropped.heap,
                       !.kept = DOMAIN dropped.heap \cap StrongRefs(
                                    <<background_layers[bg_layer_index]>>)]
           ELSE /\ visible = << >>
                /\ UNCHANGED <<background_layers, wallpapers, rx>>
                /\ last' = Did("other")
        /\ call' = wake(visible # << >>)
        /\ UNCHANGED deployment

OutputDestroyed ==
    \E output_name \in OutputNames :
        \E visible \in {<< >>} \cup
               {<<WorkspaceVisible(o, w)>> :
                    o \in OutputNames \ {output_name}, w \in Workspaces} :
            output_destroyed(output_name, visible)

\* LayerShellHandler::configure for background_layers[i].
configure(i, workspace) ==
    LET bg_layer == background_layers[i]
    IN  /\ IF ~bg_layer.configured
           THEN /\ Len(rx) < MaxQueue
                /\ background_layers' =
                       [background_layers EXCEPT ![i].configured = TRUE]
                /\ rx' = Append(rx, WorkspaceVisible(bg_layer.output_name,
                                                     workspace))
           ELSE /\ workspace = CHOOSE w \in Workspaces : TRUE
                /\ UNCHANGED <<background_layers, rx>>
        /\ call' = wake(~bg_layer.configured)
        /\ last' = Did("other")
        /\ UNCHANGED <<deployment, outputs, wallpapers>>

Configure ==
    \E i \in DOMAIN background_layers, workspace \in Workspaces :
        configure(i, workspace)

\* The heap has room for a reload of background_layers[i].
HasRoomReload(i) ==
    HasRoom(drop_unreferenced(
                [background_layers EXCEPT ![i].workspace_backgrounds = << >>],
                wallpapers).heap,
            background_layers[i].output_name)

\* What DmabufHandler::dmabuf_feedback leaves for the feedback object of
\* background_layers[bg_layer_pos]: the result of handle_dmabuf_feedback, or
\* of fallback_shm_load_wallpapers when that returned Err.
feedback_outcome(bg_layer_pos, feedback, ok_uploads) ==
    LET handled == handle_dmabuf_feedback(background_layers, wallpapers,
                       has_image_drm_format_modifier, feedback, bg_layer_pos,
                       ok_uploads)
        fallen == fallback_shm_load_wallpapers(background_layers, wallpapers,
                                               bg_layer_pos)
    IN  IF handled.ok
        THEN [layers |-> handled.layers, heap |-> handled.heap,
              op |-> IF handled.noop THEN "feedback_ignored" ELSE "other"]
        ELSE [layers |-> fallen.layers, heap |-> fallen.heap,
              op |-> "feedback_error"]

\* DmabufHandler::dmabuf_feedback for the feedback object of
\* background_layers[bg_layer_pos].
dmabuf_feedback(bg_layer_pos, feedback, ok_uploads) ==
    /\ background_layers[bg_layer_pos].dmabuf_feedback
    /\ HasRoomReload(bg_layer_pos)
    /\ \E outcome \in {feedback_outcome(bg_layer_pos, feedback, ok_uploads)} :
        /\ background_layers' = outcome.layers
        /\ wallpapers' = outcome.heap
    /\ last' = Did("other")
    /\ UNCHANGED <<envvars, outputs, rx>>

\* The same handler with its outcome kept in the history.
traced_dmabuf_feedback(bg_layer_pos, feedback, ok_uploads) ==
    /\ background_layers[bg_layer_pos].dmabuf_feedback
    /\ HasRoomReload(bg_layer_pos)
    /\ \E outcome \in {feedback_outcome(bg_layer_pos, feedback, ok_uploads)} :
        /\ background_layers' = outcome.layers
        /\ wallpapers' = outcome.heap
        /\ last' = [Did(outcome.op) EXCEPT
                       !.output = background_layers[bg_layer_pos].output_name]
    /\ UNCHANGED <<envvars, outputs, rx>>

DmabufFeedback ==
    \E bg_layer_pos \in DOMAIN background_layers, feedback \in Feedbacks :
        \E ok_uploads \in UploadBudgets(
                   background_layers[bg_layer_pos].output_name) :
            dmabuf_feedback(bg_layer_pos, feedback, ok_uploads)

\* The first layer one of whose bindings holds the wallpaper; 0 when none.
first_layer_binding(layers, wallpaper) ==
    LET binds(bg_layer) ==
            \E bg \in Range(bg_layer.workspace_backgrounds) :
                bg.wallpaper = wallpaper
    IN  FirstIndex({ix \in DOMAIN layers : binds(layers[ix])})

\* A created that stores the buffer and leaves the params in place.
created_keeps_params(wallpaper) ==
    LET i == first_layer_binding(background_layers, wallpaper)
        bg_layer == background_layers[i]
        is_it(bg) == bg.wallpaper = wallpaper
        workspace_bg == bg_layer.workspace_backgrounds[
                            FirstIndex({ix \in DOMAIN bg_layer.workspace_backgrounds :
                                is_it(bg_layer.workspace_backgrounds[ix])})]
        heap == [wallpapers EXCEPT ![wallpaper].wl_buffer = TRUE]
        drawn == drop_unreferenced(
            [background_layers EXCEPT ![i] =
                IF bg_layer.queued_wallpaper = wallpaper
                THEN draw_workspace_bg(bg_layer, heap,
                         workspace_bg.workspace_name,
                         workspace_bg.workspace_number)
                ELSE bg_layer],
            heap)
    IN  /\ wallpaper \in DOMAIN wallpapers
        /\ wallpapers[wallpaper].memory.params
        /\ i # 0
        /\ background_layers' = drawn.layers
        /\ wallpapers' = drawn.heap
        /\ last' = Did("other")
        /\ UNCHANGED <<envvars, outputs, rx>>

\* DmabufHandler::created for the params of the wallpaper.
created(wallpaper) ==
    LET i == first_layer_binding(background_layers, wallpaper)
        bg_layer == background_layers[i]
        is_it(bg) == bg.wallpaper = wallpaper
        workspace_bg == bg_layer.workspace_backgrounds[
                            FirstIndex({ix \in DOMAIN bg_layer.workspace_backgrounds :
                                is_it(bg_layer.workspace_backgrounds[ix])})]
        heap == [wallpapers EXCEPT ![wallpaper].wl_buffer = TRUE,
                                   ![wallpaper].memory.params = FALSE]
        drawn == drop_unreferenced(
            [background_layers EXCEPT ![i] =
                IF bg_layer.queued_wallpaper = wallpaper
                THEN draw_workspace_bg(bg_layer, heap,
                         workspace_bg.workspace_name,
                         workspace_bg.workspace_number)
                ELSE bg_layer],
            heap)
    IN  /\ wallpaper \in DOMAIN wallpapers
        /\ wallpapers[wallpaper].memory.params
        /\ i # 0
        /\ background_layers' = drawn.layers
        /\ wallpapers' = drawn.heap
        /\ last' = Did("other")
        /\ UNCHANGED <<envvars, outputs, rx>>

Created == \E wallpaper \in WallpaperIds : created(wallpaper)

\* DmabufHandler::failed for the params of the wallpaper: the params are
\* destroyed at the first binding holding them, so one layer falls back.
failed(wallpaper) ==
    LET i == first_layer_binding(background_layers, wallpaper)
        heap == [wallpapers EXCEPT ![wallpaper].memory.params = FALSE]
        fallen == fallback_shm_load_wallpapers(background_layers, heap, i)
    IN  /\ wallpaper \in DOMAIN wallpapers
        /\ wallpapers[wallpaper].memory.params
        /\ i # 0
        /\ HasRoomReload(i)
        /\ background_layers' = fallen.layers
        /\ wallpapers' = fallen.heap
        /\ last' = Did("other")
        /\ UNCHANGED <<envvars, outputs, rx>>

Failed == \E wallpaper \in WallpaperIds : failed(wallpaper)

\* The compositor thread: EventSender::send of a workspace change.
send(output, workspace) ==
    /\ Len(rx) < MaxQueue
    /\ rx' = Append(rx, WorkspaceVisible(output, workspace))
    /\ last' = Did("other")
    /\ UNCHANGED <<envvars, outputs, background_layers, wallpapers>>

Send == \E output \in outputs, workspace \in Workspaces :
            send(output, workspace)

\* The final message of msgs finds a configured layer of its output on which
\* draw_workspace_bg resolves no binding.
ends_in_miss(msgs, layers) ==
    LET workspace == msgs[Len(msgs)]
        on_output(bg_layer) == bg_layer.output_name = workspace.output
        i == FirstIndex({ix \in DOMAIN layers : on_output(layers[ix])})
    IN  /\ i # 0
        /\ layers[i].configured
        /\ resolve_workspace_bg(layers[i].workspace_backgrounds,
               workspace.workspace_name, workspace.workspace_number) = 0

\* The main loop woken for the channel: handle_sway_event drains it.
HandleSwayEvent ==
    LET handled == handle_sway_event(rx, background_layers, wallpapers)
    IN  /\ rx # << >>
        /\ background_layers' = handled.layers
        /\ wallpapers' = handled.heap
        /\ rx' = << >>
        /\ last' = IF ends_in_miss(rx, background_layers)
                   THEN [Did("miss") EXCEPT !.output = rx[Len(rx)].output]
                   ELSE Did("other")
        /\ UNCHANGED <<envvars, outputs>>

Next ==
    \/ NewOutput
    \/ UpdateOutput
    \/ OutputDestroyed
    \/ Configure
    \/ DmabufFeedback
    \/ Created
    \/ Failed
    \/ Send
    \/ HandleSwayEvent

Spec == Init /\ [][Next]_vars

\* No feedback object exists under the legacy protocol version.
LegacyNext ==
    \/ NewOutput
    \/ UpdateOutput
    \/ OutputDestroyed
    \/ Configure
    \/ Created
    \/ Failed
    \/ Send
    \/ HandleSwayEvent

LegacySpec == LegacyInit /\ [][LegacyNext]_vars

\* ------------------------------------------------ feedback, usable or not

\* One output on a GPU with the modifier extension under a compositor that
\* sends per-surface feedback, usable or not.
FeedbackInit == Deployment(TRUE, 4, TRUE) /\ Constructed

FeedbackNewOutput ==
    \E info \in OutputInfos["eDP-1"] : new_output("eDP-1", info, TRUE, 0)

AnyDmabufFeedback ==
    \E bg_layer_pos \in DOMAIN background_layers :
        \E feedback \in Feedbacks \cup FailingFeedbacks :
            \E ok_uploads \in UploadBudgets(
                       background_layers[bg_layer_pos].output_name) :
                traced_dmabuf_feedback(bg_layer_pos, feedback, ok_uploads)

FeedbackNext ==
    \/ FeedbackNewOutput
    \/ OutputDestroyed
    \/ Configure
    \/ AnyDmabufFeedback
    \/ Created
    \/ Failed
    \/ Send
    \/ HandleSwayEvent

FeedbackSpec == FeedbackInit /\ [][FeedbackNext]_vars

\* ------------------------------------- events for objects no layer holds

\* The process is running: no handler has panicked.
Running == last.op # "panic"

\* The handler found no object of its event and returned.
Ignored(op, name) ==
    /\ last' = [Did(op) EXCEPT !.output = name]
    /\ UNCHANGED <<envvars, outputs, background_layers, wallpapers, rx>>

\* DmabufHandler::dmabuf_feedback for the feedback object made for the
\* surface of the output proxy when no layer holds it: position() is None.
unexpected_dmabuf_feedback(proxy) ==
    LET holds(bg_layer) ==
            bg_layer.dmabuf_feedback /\ bg_layer.output_name = proxy
        bg_layer_pos == FirstIndex({ix \in DOMAIN background_layers : holds(background_layers[ix])})
    IN  /\ bg_layer_pos = 0
        /\ Ignored("unexpected_feedback", proxy)

\* The params of the wallpaper are held by the memory of no binding:
\* dmabuf_params_destroy_eq is false for every binding.
unknown_params(wallpaper) ==
    ~ ( /\ wallpaper \in DOMAIN wallpapers
        /\ wallpapers[wallpaper].memory.params
        /\ first_layer_binding(background_layers, wallpaper) # 0 )

\* DmabufHandler::created for params no binding holds: both loops end and
\* the buffer is dropped.
unexpected_created(wallpaper) ==
    /\ unknown_params(wallpaper)
    /\ Ignored("unexpected_created", "")

\* DmabufHandler::failed for params no binding holds: no layer is collected
\* and none falls back.
unexpected_failed(wallpaper) ==
    /\ unknown_params(wallpaper)
    /\ Ignored("unexpected_failed", "")

\* LayerShellHandler::configure for the layer surface made for the output
\* when no layer holds it: find() is None and unwrap() panics.
unknown_configure(output_name) ==
    /\ LET named(bg_layer) == bg_layer.output_name = output_name
       IN  FirstIndex({ix \in DOMAIN background_layers : named(background_layers[ix])}) = 0
    /\ last' = [Did("panic") EXCEPT !.output = output_name]
    /\ UNCHANGED <<envvars, outputs, background_layers, wallpapers, rx>>

\* HDMI-A-1 is announced before its mode is known: no layer is made for it.
StrayNewOutput ==
    \E info \in {i \in OutputInfos["HDMI-A-1"] : ~usable_info(i)} :
        new_output("HDMI-A-1", info, TRUE, 0)

StrayInit == FeedbackInit

StrayNext ==
    \/ Running /\ FeedbackNewOutput
    \/ Running /\ StrayNewOutput
    \/ Running /\ OutputDestroyed
    \/ Running /\ Configure
    \/ Running /\ AnyDmabufFeedback
    \/ Running /\ Created
    \/ Running /\ Failed
    \/ Running /\ Send
    \/ Running /\ HandleSwayEvent
    \/ Running /\ \E proxy \in OutputNames : unexpected_dmabuf_feedback(proxy)
    \/ Running /\ \E wallpaper \in WallpaperIds : unexpected_created(wallpaper)
    \/ Running /\ \E wallpaper \in WallpaperIds : unexpected_failed(wallpaper)
    \/ Running /\ \E output_name \in OutputNames : unknown_configure(output_name)

StraySpec == StrayInit /\ [][StrayNext]_vars

\* Sizes up to MaxPixels pixels and MaxLogical logical units, scale factors
\* up to MaxScale.
MaxPixels == 4
MaxLogical == 2
MaxScale == 2

ScaleInfos ==
    {[mode |-> <<w, h>>, logical_size |-> <<lw, lh>>, scale_factor |-> f,
      transform |-> "Normal"] :
        w \in 1..MaxPixels, h \in 1..MaxPixels,
        lw \in 1..MaxLogical, lh \in 1..MaxLogical, f \in 1..MaxScale}

ScaleNewOutput ==
    \E info \in ScaleInfos : new_output("eDP-1", info, FALSE, 0)

ScaleUpdateOutput ==
    \E info \in ScaleInfos : update_output("eDP-1", info)

ScaleInit == Deployment(FALSE, 4, FALSE) /\ Constructed

ScaleNext ==
    \/ ScaleNewOutput
    \/ ScaleUpdateOutput
    \/ Configure
    \/ OutputDestroyed

\* One output without --gpu, announced and updated with every combination of
\* pixel size, logical size and scale factor within the bounds.
ScaleSpec == ScaleInit /\ [][ScaleNext]_vars

\* ------------------------------- load_wallpapers: descriptors in flight

\* wayland.rs MAX_FDS_OUT
MAX_FDS_OUT == 28

\* The length of GpuWallpaper.memory_planes.
MaxPlanes == 4

\* The most files a wallpaper directory has.
MaxFiles == 9

\* What may happen to one file of the directory: an equal Wallpaper is
\* found, load_wallpaper fails, the upload gives 1 to MaxPlanes memory
\* planes or fails, RawPool::new fails, or the file is loaded.
FileOutcomes ==
    [reused : {TRUE}, decodes : {FALSE}, planes : {0}, pool : {FALSE}]
    \cup [reused : {FALSE}, decodes : BOOLEAN, planes : 0..MaxPlanes,
          pool : BOOLEAN]

\* A batch that is never flushed.
never_flush(fds_need_flush, queued, fds_count) ==
    [fds_need_flush |-> fds_need_flush + fds_count, queued |-> queued,
     flushed |-> FALSE]

\* flush_blocking before a request that carries fds_count descriptors when
\* they would go over MAX_FDS_OUT, then the count of them.
batch(fds_need_flush, queued, fds_count) ==
    IF fds_need_flush + fds_count > MAX_FDS_OUT
    THEN [fds_need_flush |-> fds_count, queued |-> 0, flushed |-> TRUE]
    ELSE [fds_need_flush |-> fds_need_flush + fds_count, queued |-> queued,
          flushed |-> FALSE]

\* One iteration of the for loop of load_wallpapers, as far as descriptors
\* go: queued counts the descriptors handed to the connection since its
\* last flush (one for each dmabuf_params.add, one for a created pool).
load_iteration(outcome) ==
    LET dmabuf == batch(call.fds_need_flush, call.queued, outcome.planes)
        shm == batch(call.fds_need_flush, call.queued, 1)
        next == [call EXCEPT !.k = @ + 1]
    IN  /\ call.fn = "load_wallpapers"
        /\ ~call.returned
        /\ call.k < call.files
        /\ call' =
              IF outcome.reused THEN next
              ELSE IF call.gpu_uploader /\ ~outcome.decodes THEN next
              ELSE IF call.gpu_uploader /\ outcome.planes > 0
              THEN [next EXCEPT
                       !.fds_need_flush = dmabuf.fds_need_flush,
                       !.queued = dmabuf.queued + outcome.planes,
                       !.full = @ \/ dmabuf.flushed]
              ELSE [next EXCEPT
                       !.gpu_uploader = FALSE,
                       !.fds_need_flush = shm.fds_need_flush,
                       !.queued = shm.queued + IF outcome.pool THEN 1 ELSE 0,
                       !.full = @ \/ shm.flushed]
        /\ UNCHANGED <<gpu, dmabuf_version, has_image_drm_format_modifier,
                       outputs, background_layers, wallpapers, rx, last>>

\* The end of load_wallpapers: the last batch is flushed.
load_return ==
    /\ call.fn = "load_wallpapers"
    /\ ~call.returned
    /\ call.k = call.files
    /\ call' = [call EXCEPT
                   !.returned = TRUE,
                   !.queued = IF call.fds_need_flush > 0 THEN 0 ELSE @]
    /\ UNCHANGED <<gpu, dmabuf_version, has_image_drm_format_modifier,
                   outputs, background_layers, wallpapers, rx, last>>

\* load_wallpapers entered, with or without an uploader, for a directory of
\* up to MaxFiles files: the connection was flushed and nothing is counted.
FdInit ==
    /\ Deployment(TRUE, 4, TRUE)
    /\ Blank
    /\ call \in [fn : {"load_wallpapers"}, files : 0..MaxFiles, k : {0},
                  gpu_uploader : BOOLEAN, fds_need_flush : {0},
                  queued : {0}, full : {FALSE}, returned : {FALSE}]

LoadIteration == \E outcome \in FileOutcomes : load_iteration(outcome)

FdNext ==
    \/ LoadIteration
    \/ load_return

FdSpec == FdInit /\ [][FdNext]_vars

\* ----------------------------------------- gpu/device.rs: device selection

\* gpu/device.rs SCORE_*
SCORE_MATCHES_DRM_DEV == 8
SCORE_DISCRETE_GPU == 4
SCORE_INTEGRATED_GPU == 2
SCORE_VIRTUAL_GPU == 1

\* The most physical devices the instance enumerates.
MaxDevices == 3

\* A DRM node of another GPU.
OtherNode == 3

\* The physical devices a Vulkan instance may enumerate: the device type,
\* the DRM nodes VK_EXT_physical_device_drm reports (drm = FALSE: the
\* extension is unavailable), whether enumerate_device_extension_properties
\* succeeds and whether device_with_physdev does.
PhysicalDevices ==
    LET types == {"DISCRETE_GPU", "INTEGRATED_GPU", "VIRTUAL_GPU", "CPU"}
        usable == {<<TRUE, TRUE>>, <<TRUE, FALSE>>, <<FALSE, FALSE>>}
        nodes == {<<FALSE, NoDev, NoDev>>,
                  <<TRUE, PrimaryNode, RenderNode>>,
                  <<TRUE, OtherNode, NoDev>>}
    IN  {[typ |-> t, drm |-> n[1], primary |-> n[2], render |-> n[3],
          probes |-> u[1], creates |-> u[2]] :
            t \in types, n \in nodes, u \in usable}

\* A probe that scores the device type alone.
score_by_type(dmabuf_dev, physdevs, physdev) ==
    LET props == physdevs[physdev]
    IN  [some |-> props.probes, physdev |-> physdev,
         score |-> IF props.typ = "DISCRETE_GPU" THEN SCORE_DISCRETE_GPU
                   ELSE IF props.typ = "INTEGRATED_GPU"
                   THEN SCORE_INTEGRATED_GPU
                   ELSE IF props.typ = "VIRTUAL_GPU" THEN SCORE_VIRTUAL_GPU
                   ELSE 0]

\* gpu/device.rs physdev_info for the physical device enumerated at
\* position physdev: None (some = FALSE) when its extensions cannot be
\* enumerated, else the device with its score.
physdev_info(dmabuf_dev, physdevs, physdev) ==
    LET props == physdevs[physdev]
        class == IF props.typ = "DISCRETE_GPU" THEN SCORE_DISCRETE_GPU
                 ELSE IF props.typ = "INTEGRATED_GPU"
                 THEN SCORE_INTEGRATED_GPU
                 ELSE IF props.typ = "VIRTUAL_GPU" THEN SCORE_VIRTUAL_GPU
                 ELSE 0
        matches == /\ props.drm
                   /\ dmabuf_dev # NoDev
                   /\ dmabuf_dev = props.primary \/ dmabuf_dev = props.render
    IN  [some |-> props.probes, physdev |-> physdev,
         score |-> class + IF matches THEN SCORE_MATCHES_DRM_DEV ELSE 0]

\* Iterator::filter_map(physdev_info).collect()
RECURSIVE probe(_, _, _)
probe(dmabuf_dev, physdevs, k) ==
    IF k > Len(physdevs) THEN << >>
    ELSE LET info == physdev_info(dmabuf_dev, physdevs, k)
             tail == probe(dmabuf_dev, physdevs, k + 1)
         IN  IF info.some THEN <<info>> \o tail ELSE tail

\* One insertion of the stable sort: after the elements that do not score
\* less.
RECURSIVE insert_by_score(_, _)
insert_by_score(sorted, info) ==
    IF sorted = << >> THEN <<info>>
    ELSE IF Head(sorted).score >= info.score
    THEN <<Head(sorted)>> \o insert_by_score(Tail(sorted), info)
    ELSE <<info>> \o sorted

\* slice::sort_by_key(|info| u32::MAX - info.score): stable, highest score
\* first.
RECURSIVE sort_by_key(_, _)
sort_by_key(infos, k) ==
    IF k = 0 THEN << >>
    ELSE insert_by_score(sort_by_key(infos, k - 1), infos[k])

\* A selection that gives up when the first candidate cannot be set up.
device_first_only(dmabuf_drm_dev, physdevs) ==
    LET probed == probe(dmabuf_drm_dev, physdevs, 1)
        physdev_infos == sort_by_key(probed, Len(probed))
        max_score == physdev_infos[1].score
        retained == SelectSeq(physdev_infos,
                              LAMBDA info : info.score = max_score)
        candidates == [k \in DOMAIN retained |-> retained[k].physdev]
        err(tried) == [ok |-> FALSE, physdev |-> 0,
                       candidates |-> tried, attempts |-> tried]
    IN  IF physdevs = << >> THEN err(<< >>)
        ELSE IF physdev_infos = << >> THEN err(<< >>)
        ELSE IF ~physdevs[candidates[1]].creates
        THEN [ok |-> FALSE, physdev |-> 0, candidates |-> candidates,
              attempts |-> <<candidates[1]>>]
        ELSE [ok |-> TRUE, physdev |-> candidates[1],
              candidates |-> candidates,
              attempts |-> <<candidates[1]>>]

\* What device() returns for the enumerated physical devices: Ok with the
\* position of the device set up, or Err; candidates are the devices kept
\* after retain(), attempts those device_with_physdev was called for, both
\* in the order of the calls.
device(dmabuf_drm_dev, physdevs) ==
    LET probed == probe(dmabuf_drm_dev, physdevs, 1)
        physdev_infos == sort_by_key(probed, Len(probed))
        max_score == physdev_infos[1].score
        retained == SelectSeq(physdev_infos,
                              LAMBDA info : info.score = max_score)
        candidates == [k \in DOMAIN retained |-> retained[k].physdev]
        works(k) == physdevs[candidates[k]].creates
        first_ok == FirstIndex({k \in DOMAIN candidates : works(k)})
        err(tried) == [ok |-> FALSE, physdev |-> 0,
                       candidates |-> tried, attempts |-> tried]
    IN  IF physdevs = << >> THEN err(<< >>)
        ELSE IF physdev_infos = << >> THEN err(<< >>)
        ELSE IF first_ok = 0 THEN err(candidates)
        ELSE [ok |-> TRUE, physdev |-> candidates[first_ok],
              candidates |-> candidates,
              attempts |-> SubSeq(candidates, 1, first_ok)]

\* Gpu::select_device calls device() for the DRM device of the feedback.
DeviceInit ==
    /\ Deployment(TRUE, 4, TRUE)
    /\ Blank
    /\ \E n \in 0..MaxDevices :
          call \in [fn : {"device"},
                    dmabuf_drm_dev : {NoDev, PrimaryNode, RenderNode},
                    physdevs : [1..n -> PhysicalDevices],
                    returned : {FALSE},
                    result : {[ok |-> FALSE, physdev |-> 0,
                               candidates |-> << >>, attempts |-> << >>]}]

\* device() runs to its return.
Device ==
    /\ call.fn = "device"
    /\ ~call.returned
    /\ call' = [call EXCEPT
                   !.returned = TRUE,
                   !.result = device(call.dmabuf_drm_dev, call.physdevs)]
    /\ UNCHANGED <<gpu, dmabuf_version, has_image_drm_format_modifier,
                   outputs, background_layers, wallpapers, rx, last>>

DeviceNext == Device

DeviceSpec == DeviceInit /\ [][DeviceNext]_vars

\* ------------------------------------ gpu/memory.rs: uploader() on its own

\* The widest and the highest image asked for.
MaxExtent == 9

\* The most candidate modifiers of one request.
MaxCandidates == 3

\* The candidate lists of a request: modifiers the driver has and one it
\* does not have, in any order.
CandidateLists ==
    UNION {[1..n -> {DRM_FORMAT_MOD_LINEAR, ModTiled, ModForeign}] :
              n \in 0..MaxCandidates}

\* uploader() is called for a device with or without
\* EXT_image_drm_format_modifier.
UploaderInit ==
    /\ \E modifier_ext \in BOOLEAN : Deployment(TRUE, 4, modifier_ext)
    /\ Blank
    /\ call \in [fn : {"uploader"}, width : 1..MaxExtent,
                  height : 1..MaxExtent,
                  drm_format_modifiers : CandidateLists,
                  returned : {FALSE}, result : {NoUploader}]

\* uploader() runs to its return.
MemoryUploader ==
    /\ call.fn = "uploader"
    /\ ~call.returned
    /\ call' = [call EXCEPT
                   !.returned = TRUE,
                   !.result = memory_uploader(
                       NewGpuDevice(RenderNode,
                                    has_image_drm_format_modifier),
                       call.width, call.height, call.drm_format_modifiers)]
    /\ UNCHANGED <<gpu, dmabuf_version, has_image_drm_format_modifier,
                   outputs, background_layers, wallpapers, rx, last>>

UploaderNext == MemoryUploader

UploaderSpec == UploaderInit /\ [][UploaderNext]_vars

\* ------------------------------------------------- gpu.rs: Gpu on its own

\* The most devices made in one run.
MaxMade == 3

\* The most GpuUploaders alive at a time.
MaxHeld == 2

\* The most GpuMemory objects alive at a time.
MaxMemories == 1

\* The machines Gpu runs on: one GPU, two GPUs, or one GPU no device can be
\* set up with.
Machines ==
    LET gpu1 == [typ |-> "DISCRETE_GPU", drm |-> TRUE,
                 primary |-> PrimaryNode, render |-> RenderNode,
                 probes |-> TRUE, creates |-> TRUE]
        gpu2 == [typ |-> "INTEGRATED_GPU", drm |-> TRUE,
                 primary |-> OtherNode, render |-> NoDev,
                 probes |-> TRUE, creates |-> TRUE]
    IN  {<<gpu1>>, <<gpu1, gpu2>>, <<[gpu1 EXCEPT !.creates = FALSE]>>}

\* What the last call of Gpu, or the last drop, was and gave.
Returned(op, node, ok, id, fresh, stale, released) ==
    [op |-> op, node |-> node, ok |-> ok, device |-> id, fresh |-> fresh,
     stale |-> stale, released |-> released]

\* A selection that compares the requested node with the node each device
\* was made for, and not with its primary and render nodes.
select_by_request(devices, heap, dmabuf_drm_dev) ==
    LET alive == SelectSeq(devices, LAMBDA d : d \in DOMAIN heap)
        hits == {k \in DOMAIN alive :
                    heap[alive[k]].dmabuf_drm_dev = dmabuf_drm_dev}
    IN  [devices |-> alive,
         ret |-> IF hits = {} THEN 0 ELSE alive[FirstIndex(hits)]]

\* Gpu::select_device: devices.retain() keeps the weak references that
\* upgrade; ret is the first device kept that dmabuf_drm_dev_eq, 0 for None.
retain_select(devices, heap, dmabuf_drm_dev) ==
    LET alive == SelectSeq(devices, LAMBDA d : d \in DOMAIN heap)
        hits == {k \in DOMAIN alive :
                    dmabuf_drm_dev_eq(heap[alive[k]], dmabuf_drm_dev)}
    IN  [devices |-> alive,
         ret |-> IF hits = {} THEN 0 ELSE alive[FirstIndex(hits)]]

\* A device that is dropped as soon as no GpuUploader holds it.
drop_with_uploader(heap, uploaders, memories) ==
    [d \in {x \in DOMAIN heap :
               \E u \in DOMAIN uploaders : uploaders[u].gpu_device = x}
        |-> heap[d]]

\* Rc<GpuDevice>: the devices with a strong reference left, held by a
\* GpuUploader or a GpuMemory; the others are dropped (impl Drop for
\* GpuDevice).
drop_devices(heap, uploaders, memories) ==
    [d \in {x \in DOMAIN heap :
               \/ \E u \in DOMAIN uploaders : uploaders[u].gpu_device = x
               \/ \E m \in DOMAIN memories : memories[m].gpu_device = x}
        |-> heap[d]]

\* Gpu::uploader for the node of a feedback (NoDev: the legacy list) and a
\* candidate list: the device selected, or made by device() and registered,
\* then memory.rs uploader() for a 2x2 image.  A device made for a session
\* that cannot be made is dropped with its last Rc.
gpu_uploader(dmabuf_drm_dev, drm_format_modifiers) ==
    LET selected == retain_select(call.devices, call.heap, dmabuf_drm_dev)
        fresh == selected.ret = 0
        found == device(dmabuf_drm_dev, call.physdevs)
        id == IF fresh THEN call.made + 1 ELSE selected.ret
        new_device ==
            [dmabuf_drm_dev |-> dmabuf_drm_dev,
             primary_drm_dev |-> call.physdevs[found.physdev].primary,
             render_drm_dev |-> call.physdevs[found.physdev].render,
             modifier_ext |-> has_image_drm_format_modifier]
        heap == IF fresh THEN call.heap @@ (id :> new_device) ELSE call.heap
        session == memory_uploader(heap[id], 2, 2, drm_format_modifiers)
        slot == CHOOSE n \in 1..MaxHeld : n \notin DOMAIN call.uploaders
        uploaders ==
            IF session.some
            THEN call.uploaders @@ (slot :> [session EXCEPT !.gpu_device = id])
            ELSE call.uploaders
    IN  /\ call.fn = "Gpu"
        /\ Cardinality(DOMAIN call.uploaders) < MaxHeld
        /\ fresh => call.made < MaxMade
        /\ call' =
              IF fresh /\ ~found.ok
              THEN [call EXCEPT
                       !.devices = selected.devices,
                       !.ret = Returned("uploader", dmabuf_drm_dev, FALSE,
                                        0, TRUE, FALSE, {})]
              ELSE [call EXCEPT
                       !.devices = IF fresh THEN Append(selected.devices, id)
                                   ELSE selected.devices,
                       !.made = IF fresh THEN id ELSE @,
                       !.uploaders = uploaders,
                       !.heap = drop_devices(heap, uploaders, call.memories),
                       !.ret = Returned("uploader", dmabuf_drm_dev,
                                        session.some, id, fresh, FALSE, {})]
        /\ UNCHANGED <<gpu, dmabuf_version, has_image_drm_format_modifier,
                       outputs, background_layers, wallpapers, rx, last>>

\* GpuUploader::upload: Ok gives a GpuMemory holding a clone of the
\* uploader's Rc<GpuDevice>.
gpu_upload(u, ok) ==
    LET id == call.uploaders[u].gpu_device
        stale == id \notin DOMAIN call.heap
        gpu_wallpaper ==
            upload([call.uploaders[u] EXCEPT !.gpu_device = call.heap[id]])
        slot == CHOOSE n \in 1..MaxMemories : n \notin DOMAIN call.memories
        gpu_memory ==
            [gpu_device |-> id,
             drm_format_modifier |-> gpu_wallpaper.drm_format_modifier]
    IN  /\ call.fn = "Gpu"
        /\ u \in DOMAIN call.uploaders
        /\ Cardinality(DOMAIN call.memories) < MaxMemories
        /\ call' = [call EXCEPT
                       !.memories = IF ok /\ ~stale
                                    THEN @ @@ (slot :> gpu_memory) ELSE @,
                       !.ret = Returned("upload", NoDev, ok /\ ~stale, id,
                                        FALSE, stale, {})]
        /\ UNCHANGED <<gpu, dmabuf_version, has_image_drm_format_modifier,
                       outputs, background_layers, wallpapers, rx, last>>

\* impl Drop for GpuUploader: the staging memory and buffer are released
\* with the device, then the Rc<GpuDevice> is dropped.
drop_uploader(u) ==
    LET id == call.uploaders[u].gpu_device
        uploaders == [x \in DOMAIN call.uploaders \ {u} |-> call.uploaders[x]]
        heap == drop_devices(call.heap, uploaders, call.memories)
    IN  /\ call.fn = "Gpu"
        /\ u \in DOMAIN call.uploaders
        /\ call' = [call EXCEPT
                       !.uploaders = uploaders,
                       !.heap = heap,
                       !.ret = Returned("drop", NoDev, TRUE, id, FALSE,
                                        id \notin DOMAIN call.heap,
                                        DOMAIN call.heap \ DOMAIN heap)]
        /\ UNCHANGED <<gpu, dmabuf_version, has_image_drm_format_modifier,
                       outputs, background_layers, wallpapers, rx, last>>

\* impl Drop for GpuMemory: the image and its memory are released with the
\* device, then the Rc<GpuDevice> is dropped.
drop_memory(m) ==
    LET id == call.memories[m].gpu_device
        memories == [x \in DOMAIN call.memories \ {m} |-> call.memories[x]]
        heap == drop_devices(call.heap, call.uploaders, memories)
    IN  /\ call.fn = "Gpu"
        /\ m \in DOMAIN call.memories
        /\ call' = [call EXCEPT
                       !.memories = memories,
                       !.heap = heap,
                       !.ret = Returned("drop", NoDev, TRUE, id, FALSE,
                                        id \notin DOMAIN call.heap,
                                        DOMAIN call.heap \ DOMAIN heap)]
        /\ UNCHANGED <<gpu, dmabuf_version, has_image_drm_format_modifier,
                       outputs, background_layers, wallpapers, rx, last>>

\* Gpu::new(): no device yet.  Every request carries the main device of a
\* feedback, or none does (the legacy list).
GpuInit ==
    /\ \E version \in {3, 4}, modifier_ext \in BOOLEAN :
          Deployment(TRUE, version, modifier_ext)
    /\ Blank
    /\ call \in [fn : {"Gpu"}, physdevs : Machines, devices : {<< >>},
                  heap : {<< >>}, made : {0}, uploaders : {<< >>},
                  memories : {<< >>},
                  ret : {Returned("new", NoDev, TRUE, 0, FALSE, FALSE, {})}]

\* A caller that also asks for the legacy device under linux-dmabuf v4.
MixedUploader ==
    \E dmabuf_drm_dev \in {PrimaryNode, NoDev},
       drm_format_modifiers \in {<<DRM_FORMAT_MOD_LINEAR, ModTiled>>,
                                 <<ModForeign>>} :
        gpu_uploader(dmabuf_drm_dev, drm_format_modifiers)

GpuUploader ==
    \E dmabuf_drm_dev \in IF dmabuf_version >= 4
                          THEN {PrimaryNode, RenderNode, OtherNode}
                          ELSE {NoDev},
       drm_format_modifiers \in {<<DRM_FORMAT_MOD_LINEAR, ModTiled>>,
                                 <<ModForeign>>} :
        gpu_uploader(dmabuf_drm_dev, drm_format_modifiers)

GpuUpload == \E u \in 1..MaxHeld, ok \in BOOLEAN : gpu_upload(u, ok)

DropUploader == \E u \in 1..MaxHeld : drop_uploader(u)

DropMemory == \E m \in 1..MaxMemories : drop_memory(m)

GpuNext ==
    \/ GpuUploader
    \/ GpuUpload
    \/ DropUploader
    \/ DropMemory

GpuSpec == GpuInit /\ [][GpuNext]_vars

\* --------------------------- gpu: the resources of one attempt, step by step

\* The fallible statements of a function in program order, each with the
\* resource it creates when it succeeds ("" for none) and whether a
\* scopeguard, an owning type or an Rc releases that resource when a later
\* statement returns the error.
Statements(fn, modifier_ext) ==
    LET check == [creates |-> "", guard |-> FALSE]
        makes(resource) == [creates |-> resource, guard |-> TRUE]
    IN  IF fn = "try_device_with_physdev"
        THEN <<check,                      \* api version
               check,                      \* queue family
               check, check, check, check, \* the four extensions needed
               makes("device"), makes("command pool"),
               makes("command buffer")>>
        ELSE IF fn = "uploader"
        THEN <<check,                      \* the modifier filter
               makes("staging buffer"),
               check,                      \* find_memorytype_index
               makes("staging memory"),
               check,                      \* bind_buffer_memory
               check>>                     \* map_memory
        ELSE IF fn = "upload"
        THEN <<makes("image"),
               check,                      \* find_memorytype_index
               makes("image memory"),
               check,                      \* bind_image_memory
               check, check,               \* reset, begin command buffer
               check, check, check>>       \* end, submit, wait idle
             \o (IF modifier_ext THEN <<check, check>> ELSE << >>)
             \o <<check,                   \* get_memory_fd
                  makes("exported handle")>>   \* raw_fd >= 0
        ELSE <<makes("device"),            \* Gpu::uploader: device()
               makes("uploader")>>         \* memory.rs uploader()

\* An error return that runs no guard.
forget_guards(resources, guarded) ==
    resources

\* The `?` or bail! of a failing statement: the locals are dropped in
\* reverse order and every armed guard releases its resource.
unwind(resources, guarded) ==
    resources \ guarded

\* An attempt is entered; fails_at is the statement that will fail, 0 for
\* none.
AttemptInit ==
    /\ \E modifier_ext \in BOOLEAN : Deployment(TRUE, 4, modifier_ext)
    /\ Blank
    /\ \E fn \in {"try_device_with_physdev", "uploader", "upload",
                  "Gpu::uploader"} :
          call \in [fn : {fn},
                    fails_at : 0..Len(Statements(
                                    fn, has_image_drm_format_modifier)),
                    pc : {1}, resources : {{}}, guarded : {{}},
                    returned : {FALSE}, ok : {FALSE}]

\* The statement at pc: it fails and the function returns the error, or it
\* succeeds, its resource exists and its guard is armed.
attempt_step ==
    LET statements == Statements(call.fn, has_image_drm_format_modifier)
        statement == statements[call.pc]
        made == IF statement.creates = "" THEN {} ELSE {statement.creates}
    IN  /\ call.fn \in {"try_device_with_physdev", "uploader", "upload",
                        "Gpu::uploader"}
        /\ ~call.returned
        /\ call.pc <= Len(statements)
        /\ call' =
              IF call.pc = call.fails_at
              THEN [call EXCEPT
                       !.returned = TRUE,
                       !.resources = unwind(@, call.guarded),
                       !.guarded = {}]
              ELSE [call EXCEPT
                       !.pc = @ + 1,
                       !.resources = @ \cup made,
                       !.guarded = IF statement.guard THEN @ \cup made
                                   ELSE @]
        /\ UNCHANGED <<gpu, dmabuf_version, has_image_drm_format_modifier,
                       outputs, background_layers, wallpapers, rx, last>>

\* Ok(..): ScopeGuard::into_inner defuses the guards and the resources move
\* into the value returned.
attempt_return ==
    /\ call.fn \in {"try_device_with_physdev", "uploader", "upload",
                    "Gpu::uploader"}
    /\ ~call.returned
    /\ call.pc > Len(Statements(call.fn, has_image_drm_format_modifier))
    /\ call' = [call EXCEPT !.returned = TRUE, !.ok = TRUE, !.guarded = {}]
    /\ UNCHANGED <<gpu, dmabuf_version, has_image_drm_format_modifier,
                   outputs, background_layers, wallpapers, rx, last>>

AttemptNext ==
    \/ attempt_step
    \/ attempt_return

AttemptSpec == AttemptInit /\ [][AttemptNext]_vars

\* ------------------- handle_dmabuf_feedback: the tranche and its modifiers

\* The most tranches of one feedback.
MaxTranches == 2

\* The format index lists a tranche may carry (0-based indices into
\* FormatTable; 3 and 5 are outside the table).
FormatLists ==
    {<< >>, <<0>>, <<2>>, <<3>>, <<0, 1>>, <<1, 0>>, <<1, 1>>, <<2, 5>>,
     <<0, 2, 1>>, <<3, 1, 0>>}

\* A feedback is done: any main device and any tranches.
TrancheInit ==
    /\ Deployment(TRUE, 4, TRUE)
    /\ Blank
    /\ \E n \in 0..MaxTranches :
          call \in [fn : {"handle_dmabuf_feedback"},
                    feedback :
                        [main_device : {PrimaryNode, RenderNode},
                         format_table : {FormatTable},
                         tranches :
                             [1..n -> [device : {PrimaryNode, RenderNode},
                                       formats : FormatLists]]],
                    returned : {FALSE}, index : {0},
                    drm_format_modifiers : {<< >>}]

\* handle_dmabuf_feedback up to the candidate modifiers: index is the
\* position of the selected tranche, 0 when the function bails first.
select_modifiers ==
    /\ call.fn = "handle_dmabuf_feedback"
    /\ ~call.returned
    /\ \E index \in {selected_tranche(call.feedback)} :
          call' = [call EXCEPT
                      !.returned = TRUE,
                      !.index = index,
                      !.drm_format_modifiers =
                          IF index = 0 THEN << >>
                          ELSE tranche_modifiers(
                                   call.feedback.format_table,
                                   call.feedback.tranches[index].formats, 1)]
    /\ UNCHANGED <<gpu, dmabuf_version, has_image_drm_format_modifier,
                   outputs, background_layers, wallpapers, rx, last>>

TrancheSpec == TrancheInit /\ [][select_modifiers]_vars

\* ------------------------------------------------------ the main event loop
\* run() from the registration of the readiness sources on: call follows the
\* loop-owning thread through one iteration after the other, with the state
\* of the wake primitive, of the signal pipe and of the compositor thread.
\* Longest channel the compositor thread fills while the loop is followed.
MaxSent == 2

Signals == {"SIGTERM", "SIGUSR1", "SIGUSR2"}

\* SignalFlags::any_termination() of what was read from the signal pipe.
any_termination(signal_flags) == "SIGTERM" \in signal_flags

\* The sources Poll::poll() finds readable; the display-server socket is
\* readable when the compositor has written to it.
readable(conn) ==
    {t \in {"token_wayland"} : conn}
    \cup {t \in {"token_compositor"} : call.waker}
    \cup {t \in {"token_signal"} : call.signal_pipe /\ call.signals # {}}

InLoop == call.fn = "run" /\ call.pc \notin {"spawn", "returned"}

\* At pc the loop goes on to the next statement.
goes(pc, next) ==
    /\ call.fn = "run"
    /\ call.pc = pc
    /\ call' = next
    /\ UNCHANGED <<deployment, outputs, background_layers, wallpapers, rx,
                   last>>

LoopInit ==
    /\ Deployment(FALSE, 4, FALSE)
    /\ Blank
    /\ call \in [fn : {"run"}, pc : {"spawn"}, threads : {0},
                 sender : {"idle"}, waker : {FALSE}, signal_pipe : BOOLEAN,
                 signals : {{}}, ready : {{}}, handled : {{}}]

\* ConnectionTask::spawn_subscribe_event_loop: the one thread::Builder spawn.
spawn_subscribe_event_loop ==
    goes("spawn", [call EXCEPT !.pc = "flush", !.threads = @ + 1])

flush_blocking == goes("flush", [call EXCEPT !.pc = "prepare_read"])

\* Handlers run on the loop's thread, from dispatch_pending: in
\* ensure_prepare_read, and in handle_wayland_event when the socket was ready.
Dispatching ==
    /\ call.fn = "run"
    /\ \/ call.pc = "prepare_read"
       \/ call.pc = "wayland" /\ "token_wayland" \in call.ready

dispatch_pending ==
    /\ Dispatching
    /\ \/ FeedbackNewOutput
       \/ OutputDestroyed
       \/ Configure

ensure_prepare_read == goes("prepare_read", [call EXCEPT !.pc = "poll"])

\* poll.poll() blocks until a source is readable and reports every one.
poll ==
    \E conn \in BOOLEAN :
        /\ readable(conn) # {}
        /\ goes("poll", [call EXCEPT !.pc = "wayland",
                             !.ready = readable(conn), !.handled = {}])

\* A loop that looks at the pending signals before its sources are handled.
return_on_signal ==
    goes("wayland",
         IF any_termination(call.signals)
         THEN [call EXCEPT !.pc = "returned", !.signals = {}]
         ELSE [call EXCEPT !.pc = "compositor",
                   !.handled = @ \cup (call.ready \cap {"token_wayland"})])

\* The end of handle_wayland_event, or drop(read_guard).
handle_wayland_event ==
    goes("wayland", [call EXCEPT !.pc = "compositor",
                         !.handled = @ \cup (call.ready \cap {"token_wayland"})])

\* if poll.ready(token_compositor) { waker.read(); ...
waker_read ==
    goes("compositor",
         IF "token_compositor" \in call.ready
         THEN [call EXCEPT !.pc = "recv", !.waker = FALSE]
         ELSE [call EXCEPT !.pc = "signal"])

\* handle_sway_event: while let Ok(workspace) = rx.try_recv()
try_recv ==
    /\ call.fn = "run"
    /\ call.pc = "recv"
    /\ HandleSwayEvent

\* A loop that reads the waker after handle_sway_event, some time after its
\* last try_recv() found the channel empty.
returns_then_reads_waker ==
    goes("recv", [call EXCEPT !.pc = "signal", !.waker = FALSE,
                      !.handled = @ \cup {"token_compositor"}])

\* try_recv() finds the channel empty.
handle_sway_event_returns ==
    /\ rx = << >>
    /\ goes("recv", [call EXCEPT !.pc = "signal",
                         !.handled = @ \cup {"token_compositor"}])

\* The signal check that ends the iteration; ok: signal_pipe.read() is Ok.
signal_check(ok) ==
    goes("signal",
         IF call.signal_pipe /\ "token_signal" \in call.ready /\ ok
         THEN [call EXCEPT !.signals = {},
                           !.pc = IF any_termination(call.signals)
                                  THEN "returned" ELSE "flush"]
         ELSE [call EXCEPT !.pc = "flush"])

SignalCheck == \E ok \in BOOLEAN : signal_check(ok)

\* A signal is delivered to the process: its handler writes to the pipe.
raise(signal) ==
    /\ InLoop
    /\ call.signal_pipe
    /\ signal \notin call.signals
    /\ call' = [call EXCEPT !.signals = @ \cup {signal}]
    /\ UNCHANGED <<deployment, outputs, background_layers, wallpapers, rx,
                   last>>

Raise == \E signal \in Signals : raise(signal)

\* A compositor thread that draws the workspace it reports by itself.
send_and_draw(output, workspace) ==
    LET drawn == handle_sway_event(<<WorkspaceVisible(output, workspace)>>,
                                   background_layers, wallpapers)
    IN  /\ InLoop
        /\ call.threads > 0
        /\ call.sender = "idle"
        /\ Len(rx) < MaxSent
        /\ rx' = Append(rx, WorkspaceVisible(output, workspace))
        /\ background_layers' = drawn.layers
        /\ wallpapers' = drawn.heap
        /\ call' = [call EXCEPT !.sender = "sent"]
        /\ UNCHANGED <<deployment, outputs, last>>

\* EventSender::send on the compositor thread: self.tx.send(workspace) ...
tx_send(output, workspace) ==
    /\ InLoop
    /\ call.threads > 0
    /\ call.sender = "idle"
    /\ Len(rx) < MaxSent
    /\ rx' = Append(rx, WorkspaceVisible(output, workspace))
    /\ call' = [call EXCEPT !.sender = "sent"]
    /\ UNCHANGED <<deployment, outputs, background_layers, wallpapers, last>>

TxSend == \E output \in OutputNames, workspace \in Workspaces :
              tx_send(output, workspace)

\* ... then self.waker.wake().
waker_wake ==
    /\ InLoop
    /\ call.sender = "sent"
    /\ call' = [call EXCEPT !.sender = "idle", !.waker = TRUE]
    /\ UNCHANGED <<deployment, outputs, background_layers, wallpapers, rx,
                   last>>

LoopNext ==
    \/ spawn_subscribe_event_loop
    \/ flush_blocking
    \/ dispatch_pending
    \/ ensure_prepare_read
    \/ poll
    \/ handle_wayland_event
    \/ waker_read
    \/ try_recv
    \/ handle_sway_event_returns
    \/ SignalCheck
    \/ Raise
    \/ TxSend
    \/ waker_wake

LoopSpec == LoopInit /\ [][LoopNext]_vars

\* The loop's thread runs each statement it has reached, and the compositor
\* thread gets from tx.send() to waker.wake().  try_recv is enabled exactly
\* when the loop is in handle_sway_event with a message in the channel, and
\* it empties the channel, so its weak fairness is written out.
LoopFairSpec ==
    /\ LoopSpec
    /\ WF_vars(spawn_subscribe_event_loop)
    /\ WF_vars(flush_blocking)
    /\ WF_vars(ensure_prepare_read)
    /\ WF_vars(poll)
    /\ WF_vars(handle_wayland_event)
    /\ WF_vars(waker_read)
    /\ []<>~(call.fn = "run" /\ call.pc = "recv" /\ rx # << >>)
    /\ WF_vars(handle_sway_event_returns)
    /\ WF_vars(SignalCheck)
    /\ WF_vars(waker_wake)

\* ================================================================ claims

\* The layer of the output, 0 when it has none.
LayerOf(layers, output_name) ==
    LET named(bg_layer) == bg_layer.output_name = output_name
    IN  FirstIndex({ix \in DOMAIN layers : named(layers[ix])})

\* The Wallpapers made in a step: those alive after it that were not alive
\* before it, or whose identity now names an object made under another key.
Made ==
    {w \in DOMAIN wallpapers' :
        \/ w \notin DOMAIN wallpapers
        \/ wallpapers'[w].key # wallpapers[w].key}

\* C1: the decode/upload work for a dedup key (canonical path, modification
\* time, target size, transform, backend) is done once: no handler makes a
\* Wallpaper under a key under which another Wallpaper is alive.
C1_WorkOncePerKey ==
    [][\A w \in Made :
          \A v \in DOMAIN wallpapers' \ {w} :
              wallpapers'[v].key # wallpapers'[w].key]_vars

\* C2: in every reachable state no two distinct live Wallpaper objects have
\* equal dedup keys.
C2_EqualKeysOneWallpaper ==
    \A v \in DOMAIN wallpapers, w \in DOMAIN wallpapers :
        v # w => wallpapers[v].key # wallpapers[w].key

\* C3: two outputs of identical resolution and transform that each bind a
\* file of the same canonical path and modification time, through the same
\* backend class, bind one shared Wallpaper.
C3_SameFileSameSizeShared ==
    \A i \in DOMAIN background_layers, j \in DOMAIN background_layers :
        ( /\ i # j
          /\ background_layers[i].width = background_layers[j].width
          /\ background_layers[i].height = background_layers[j].height
          /\ background_layers[i].transform = background_layers[j].transform )
        => \A a \in Range(background_layers[i].workspace_backgrounds),
              b \in Range(background_layers[j].workspace_backgrounds) :
               ( /\ wallpapers[a.wallpaper].canon_path
                        = wallpapers[b.wallpaper].canon_path
                 /\ wallpapers[a.wallpaper].canon_modified
                        = wallpapers[b.wallpaper].canon_modified
                 /\ wallpapers[a.wallpaper].memory.kind
                        = wallpapers[b.wallpaper].memory.kind )
               => a.wallpaper = b.wallpaper

\* The Wallpapers a set of layers holds strongly: bound or attached.
HeldBy(layer_set) ==
    UNION {{bg.wallpaper : bg \in Range(bg_layer.workspace_backgrounds)}
           \cup ({bg_layer.current_wallpaper} \ {NoWallpaper})
           : bg_layer \in layer_set}

\* The layer as it is once the Wallpapers outside alive are gone: a pending
\* target among them can no longer be upgraded.
Surviving(bg_layer, alive) ==
    [bg_layer EXCEPT !.queued_wallpaper =
        IF @ \in alive THEN @ ELSE NoWallpaper]

\* C4: output_destroyed releases exactly the Wallpapers only the removed
\* output referenced; every Wallpaper another output still references stays
\* alive with its buffer and memory unchanged, and the other outputs keep
\* their bindings and attached wallpapers.
C4_DestroyReleasesOnlyUnshared ==
    [][\A o \in outputs :
          outputs' = outputs \ {o} =>
              LET i == LayerOf(background_layers, o)
                  others == {background_layers[j] :
                                j \in DOMAIN background_layers \ {i}}
              IN  /\ DOMAIN wallpapers' = DOMAIN wallpapers \cap HeldBy(others)
                  /\ \A w \in DOMAIN wallpapers' :
                        wallpapers'[w] = wallpapers[w]
                  /\ Range(background_layers')
                        = {Surviving(bg_layer, DOMAIN wallpapers') :
                              bg_layer \in others}
                  /\ Len(background_layers') = Cardinality(others)]_vars

\* C4 happens: an output_destroyed has just released a Wallpaper of the
\* removed output and kept another one the removed output shared.
C4_Witness ==
    /\ last.op = "output_destroyed"
    /\ last.released # {}
    /\ last.kept # {}
    /\ last.kept \subseteq DOMAIN wallpapers
    /\ last.released \cap DOMAIN wallpapers = {}

\* The layer is backed by host memory only: every binding and the attached
\* wallpaper are WlShm, and no workspace name is bound twice.
HostOnly(bg_layer, heap) ==
    /\ \A w \in HeldBy({bg_layer}) : heap[w].memory.kind = "WlShm"
    /\ \A j \in DOMAIN bg_layer.workspace_backgrounds,
          k \in DOMAIN bg_layer.workspace_backgrounds :
           bg_layer.workspace_backgrounds[j].workspace_name
               = bg_layer.workspace_backgrounds[k].workspace_name => j = k

\* The step is a zero-copy failure handled for layer i: a failed params
\* object of one of its wallpapers, or a feedback it cannot use.
FallsBack(i) ==
    \/ \E w \in DOMAIN wallpapers :
          /\ first_layer_binding(background_layers, w) = i
          /\ failed(w)
    \/ \E feedback \in Feedbacks :
          \E ok_uploads \in UploadBudgets(background_layers[i].output_name) :
              /\ dmabuf_feedback(i, feedback, ok_uploads)
              /\ ~handle_dmabuf_feedback(background_layers, wallpapers,
                     has_image_drm_format_modifier, feedback, i,
                     ok_uploads).ok

\* C5: after a zero-copy failure the affected output is fully in WlShm mode:
\* all its bindings and its attached wallpaper are WlShm, it holds no
\* accelerator allocation and binds no workspace twice.
C5_FallbackLeavesHostOnly ==
    [][\A i \in DOMAIN background_layers :
          FallsBack(i) => HostOnly(background_layers'[i], wallpapers')]_vars

\* The bindings a workspace resolves to: those of its name, else those of its
\* number, else those of `_default`.
Resolved(workspace_backgrounds, workspace) ==
    LET named == {j \in DOMAIN workspace_backgrounds :
            workspace_backgrounds[j].workspace_name
                = workspace.workspace_name}
        numbered == {j \in DOMAIN workspace_backgrounds :
            workspace_backgrounds[j].workspace_number
                = workspace.workspace_number}
        default == {j \in DOMAIN workspace_backgrounds :
            workspace_backgrounds[j].workspace_name = "_default"}
    IN  IF named # {} THEN named
        ELSE IF numbered # {} THEN numbered
        ELSE default

\* C6: an activation resolves by exact name, then by number, then to
\* `_default`: on a configured output the wallpaper so resolved is attached
\* when it has its buffer and becomes the pending target when it has not; in
\* a directory with `_default` and `1`, workspace "1" gets `1` and workspace
\* "9" gets `_default`.
C6_ResolutionOrder ==
    [][(Len(rx) = 1 /\ rx' = << >>) =>
          LET i == LayerOf(background_layers, rx[1].output)
              cands == Resolved(background_layers[i].workspace_backgrounds,
                                rx[1])
          IN  (i # 0 /\ background_layers[i].configured /\ cands # {}) =>
                  \E j \in cands :
                      LET w == background_layers[i]
                                   .workspace_backgrounds[j].wallpaper
                      IN  IF wallpapers[w].wl_buffer
                          THEN background_layers'[i].current_wallpaper = w
                          ELSE /\ background_layers'[i].queued_wallpaper = w
                               /\ background_layers'[i].current_wallpaper
                                    = background_layers[i].current_wallpaper
      ]_vars

\* C6 happens: eDP-1, whose directory holds `_default` and `1`, shows the
\* wallpaper of `_default`, which is not the one of `1`.
C6_Witness ==
    \E i \in DOMAIN background_layers :
        /\ background_layers[i].output_name = "eDP-1"
        /\ \E j \in DOMAIN background_layers[i].workspace_backgrounds :
              LET bg == background_layers[i].workspace_backgrounds[j]
              IN  /\ bg.workspace_name = "_default"
                  /\ bg.wallpaper = background_layers[i].current_wallpaper
        /\ \E j \in DOMAIN background_layers[i].workspace_backgrounds :
              LET bg == background_layers[i].workspace_backgrounds[j]
              IN  /\ bg.workspace_name = "1"
                  /\ bg.wallpaper # background_layers[i].current_wallpaper

\* The step drains a channel holding an activation for the output that
\* resolves to a wallpaper there.
ResolvingActivation(output_name) ==
    /\ rx # << >>
    /\ rx' = << >>
    /\ \E k \in DOMAIN rx :
          /\ rx[k].output = output_name
          /\ LET i == LayerOf(background_layers, output_name)
             IN  /\ i # 0
                 /\ Resolved(background_layers[i].workspace_backgrounds,
                             rx[k]) # {}

\* C7: an activation that resolves no binding leaves the attached wallpaper
\* as it was, and it stays the same until a later activation resolves to a
\* wallpaper: after a miss on an output no step but such an activation
\* changes what the output has attached.
C7_MissKeepsAttached ==
    [][/\ (Len(rx) = 1 /\ rx' = << >>
             /\ ends_in_miss(rx, background_layers)) =>
          LET i == LayerOf(background_layers, rx[1].output)
          IN  background_layers'[i].current_wallpaper
                = background_layers[i].current_wallpaper
       /\ (last.op = "miss" /\ ~ResolvingActivation(last.output)) =>
          LET i == LayerOf(background_layers, last.output)
              k == LayerOf(background_layers', last.output)
          IN  k # 0 => background_layers'[k].current_wallpaper
                         = background_layers[i].current_wallpaper]_vars

\* C8: when `created` fires for the params of a Wallpaper, the attach is
\* completed on each output whose pending target it is, and no other output
\* changes what it has attached.
C8_CreatedCompletesPending ==
    [][\A w \in DOMAIN wallpapers :
          created(w) =>
              \A i \in DOMAIN background_layers :
                  background_layers'[i].current_wallpaper =
                      IF background_layers[i].queued_wallpaper = w
                      THEN w
                      ELSE background_layers[i].current_wallpaper]_vars

\* The scaling table: equal pixel and logical size gives no scaling, pixel
\* size equal to logical size times the scale factor gives that buffer
\* scale, anything else a viewport whose destination is the logical size.
TableScaling(info) ==
    LET size == transformed_size(info.mode, info.transform)
    IN  IF size = info.logical_size
        THEN [buffer_scale |-> 1, viewport |-> NoViewport]
        ELSE IF /\ size[1] = info.logical_size[1] * info.scale_factor
                /\ size[2] = info.logical_size[2] * info.scale_factor
        THEN [buffer_scale |-> info.scale_factor, viewport |-> NoViewport]
        ELSE [buffer_scale |-> 1, viewport |-> info.logical_size]

\* C9: for every pixel size, logical size and integer scale factor, both
\* new_output and update_output leave the surface scaled as the table says.
C9_ScalingTable ==
    [][\A info \in ScaleInfos :
          (new_output("eDP-1", info, FALSE, 0)
               \/ update_output("eDP-1", info)) =>
              LET i == LayerOf(background_layers', "eDP-1")
              IN  i # 0 =>
                    /\ background_layers'[i].buffer_scale
                         = TableScaling(info).buffer_scale
                    /\ background_layers'[i].viewport
                         = TableScaling(info).viewport]_vars

\* C10: a zero-copy failure handled for one output leaves every other
\* output's bindings, attached wallpaper, pending target and feedback handle
\* unchanged, and the wallpapers they bind usable: each has its buffer or the
\* params that will deliver it.
C10_FallbackOnlyThatOutput ==
    [][\A i \in DOMAIN background_layers :
          FallsBack(i) =>
              \A j \in DOMAIN background_layers \ {i} :
                  /\ background_layers'[j] = background_layers[j]
                  /\ \A w \in HeldBy({background_layers'[j]}) :
                        \/ wallpapers'[w].wl_buffer
                        \/ wallpapers'[w].memory.params]_vars

\* The step handles a feedback for layer i that the negotiation rejects.
FeedbackFails(i) ==
    \E feedback \in Feedbacks \cup FailingFeedbacks :
        \E ok_uploads \in UploadBudgets(background_layers[i].output_name) :
            /\ traced_dmabuf_feedback(i, feedback, ok_uploads)
            /\ ~handle_dmabuf_feedback(background_layers, wallpapers,
                   has_image_drm_format_modifier, feedback, i,
                   ok_uploads).ok

\* The workspaces of the decodable files of an output, in directory order.
DecodableWorkspaces(output_name) ==
    LET files == WallpaperDir[output_name]
        decodable(ix) == files[ix].canon_path \notin UndecodablePaths
    IN  [k \in 1..Cardinality({ix \in DOMAIN files : decodable(ix)}) |->
            files[CHOOSE ix \in DOMAIN files :
                     /\ decodable(ix)
                     /\ Cardinality({jx \in 1..ix : decodable(jx)}) = k
                 ].workspace]

\* C11: every failure in the feedback path (no tranches, no tranche for the
\* main device, no XRGB8888 modifier in the selected tranche, no uploader)
\* discards the output's feedback handle and replaces the output's bindings
\* by one host-memory binding for each of its wallpaper files.
C11_FeedbackFailureReloadsHost ==
    [][\A i \in DOMAIN background_layers :
          FeedbackFails(i) =>
              LET after == background_layers'[i]
                  bound == after.workspace_backgrounds
              IN  /\ ~after.dmabuf_feedback
                  /\ [k \in DOMAIN bound |-> bound[k].workspace_name]
                         = DecodableWorkspaces(after.output_name)
                  /\ \A k \in DOMAIN bound :
                         wallpapers'[bound[k].wallpaper].memory.kind
                             = "WlShm"]_vars

\* A rejected feedback has replaced accelerator bindings: the output still
\* shows a Dmabuf wallpaper while all its bindings are WlShm.
C11_Witness ==
    /\ last.op = "feedback_error"
    /\ \E i \in DOMAIN background_layers :
          LET bg_layer == background_layers[i]
          IN  /\ bg_layer.output_name = last.output
              /\ ~bg_layer.dmabuf_feedback
              /\ bg_layer.workspace_backgrounds # << >>
              /\ bg_layer.current_wallpaper # NoWallpaper
              /\ wallpapers[bg_layer.current_wallpaper].memory.kind
                     = "Dmabuf"


\* The feedback reports the device and the XRGB8888 modifier set under which
\* layer i negotiated an accelerator wallpaper it still binds.
ReportsUnchanged(i, feedback) ==
    /\ selected_tranche(feedback) # 0
    /\ \E bg \in Range(background_layers[i].workspace_backgrounds) :
          LET key == wallpapers[bg.wallpaper].key
          IN  /\ key.backend = "Dmabuf"
              /\ key.device.dmabuf_drm_dev = feedback.main_device
              /\ key.modifiers = Range(tranche_modifiers(
                     feedback.format_table,
                     feedback.tranches[selected_tranche(feedback)].formats,
                     1))

\* C12: a feedback that reports the device and modifier set the output has
\* negotiated is a no-op: no binding is cleared or reloaded and no Wallpaper
\* is made or released.
C12_UnchangedFeedbackIsNoOp ==
    [][\A i \in DOMAIN background_layers :
          \A feedback \in Feedbacks \cup FailingFeedbacks :
              \A ok_uploads \in UploadBudgets(
                                    background_layers[i].output_name) :
                  ( /\ traced_dmabuf_feedback(i, feedback, ok_uploads)
                    /\ ReportsUnchanged(i, feedback) )
                  => UNCHANGED <<background_layers, wallpapers>>]_vars


\* The step handles an event whose object no layer holds: a feedback object,
\* buffer params, a layer surface, the name of a destroyed output, or the
\* outputs of the queued workspace messages.
UnknownObjectEvent ==
    \/ \E proxy \in OutputNames : unexpected_dmabuf_feedback(proxy)
    \/ \E wallpaper \in WallpaperIds :
          unexpected_created(wallpaper) \/ unexpected_failed(wallpaper)
    \/ \E output_name \in OutputNames : unknown_configure(output_name)
    \/ \E output_name \in OutputNames :
          /\ LayerOf(background_layers, output_name) = 0
          /\ output_destroyed(output_name, << >>)
    \/ /\ \A k \in DOMAIN rx : LayerOf(background_layers, rx[k].output) = 0
       /\ HandleSwayEvent

\* C13: an event that references an object no layer holds is ignored: the
\* layers and the Wallpapers are unchanged and the process keeps running.
C13_UnknownObjectIgnored ==
    [][UnknownObjectEvent =>
          /\ UNCHANGED <<background_layers, wallpapers>>
          /\ last'.op # "panic"]_vars


\* The files of an output that load_wallpaper cannot decode.
Undecodable(output_name) ==
    {k \in DOMAIN WallpaperDir[output_name] :
        WallpaperDir[output_name][k].canon_path \in UndecodablePaths}

\* C14: a file that fails to decode gets no binding and does not stop the
\* load: a loaded output binds exactly its decodable files, in directory
\* order, only an output waiting for its feedback binds nothing, and a
\* reload counts one error for each undecodable file.
C14_DecodeFailureSkipsFile ==
    \A i \in DOMAIN background_layers :
        LET bg_layer == background_layers[i]
            bound == bg_layer.workspace_backgrounds
        IN  /\ bound = << >> => bg_layer.dmabuf_feedback
            /\ bound # << >> =>
                   [k \in DOMAIN bound |-> bound[k].workspace_name]
                       = DecodableWorkspaces(bg_layer.output_name)
            /\ HasRoomReload(i) =>
                   fallback_shm_load_wallpapers(background_layers,
                       wallpapers, i).error_count
                       = Cardinality(Undecodable(bg_layer.output_name))

\* An output whose first file is undecodable has loaded the files after it.
C14_Witness ==
    \E i \in DOMAIN background_layers :
        LET bg_layer == background_layers[i]
        IN  /\ 1 \in Undecodable(bg_layer.output_name)
            /\ Len(bg_layer.workspace_backgrounds)
                   = Len(WallpaperDir[bg_layer.output_name]) - 1
            /\ HasRoomReload(i)


\* C15: while load_wallpapers runs, the descriptors handed to the connection
\* since its last flush never exceed MAX_FDS_OUT, whatever happens to each
\* file, and none is left unflushed when load_wallpapers returns.
C15_FdsInFlightBounded ==
    call.fn = "load_wallpapers" =>
        /\ call.queued <= MAX_FDS_OUT
        /\ call.returned => call.queued = 0

\* A load has returned after a batch was flushed at the limit.
C15_Witness ==
    /\ call.fn = "load_wallpapers"
    /\ call.returned
    /\ call.full
    /\ call.fds_need_flush > 0


\* The step has loaded the bindings of the output: it has a layer whose
\* bindings are not those the output had.
Rebuilt(output_name) ==
    LET i == LayerOf(background_layers, output_name)
        after == LayerOf(background_layers', output_name)
    IN  /\ after # 0
        /\ \/ i = 0
           \/ background_layers[i].workspace_backgrounds
                  # background_layers'[after].workspace_backgrounds

\* The Wallpapers that stay alive while the bindings of the output are
\* rebuilt: those another layer holds and the one the output shows.
AliveThroughLoad(output_name) ==
    LET i == LayerOf(background_layers, output_name)
    IN  HeldBy({background_layers[j] : j \in DOMAIN background_layers \ {i}})
        \cup (IF i = 0 THEN {}
              ELSE {background_layers[i].current_wallpaper} \ {NoWallpaper})

C17_LiveWallpaperIsBound ==
    \A w \in DOMAIN wallpapers :
        \E i \in DOMAIN background_layers :
            \E bg \in Range(background_layers[i].workspace_backgrounds) :
                bg.wallpaper = w


\* C18: update_output recomputes the scaling of the output and nothing
\* else: the bindings, the Wallpapers, the stored width, height and
\* transform and the attached wallpaper of every output are as before, also
\* when the reported pixel size is not the stored one.
C18_UpdateKeepsWallpapers ==
    [][\A output_name \in outputs :
          \A info \in ScaleInfos \cup OutputInfos[output_name] :
              update_output(output_name, info) =>
                  LET i == LayerOf(background_layers, output_name)
                      size == transformed_size(info.mode, info.transform)
                      scaling == update_output_scaling(size[1], size[2],
                                     info.logical_size[1],
                                     info.logical_size[2], info.scale_factor)
                  IN  /\ wallpapers' = wallpapers
                      /\ DOMAIN background_layers' = DOMAIN background_layers
                      /\ \A j \in DOMAIN background_layers :
                            background_layers'[j] =
                                IF j = i /\ usable_info(info)
                                THEN [background_layers[j] EXCEPT
                                         !.viewport = scaling.viewport,
                                         !.buffer_scale =
                                             scaling.buffer_scale]
                                ELSE background_layers[j]]_vars

\* An output that loaded its wallpapers for 4x4 pixels has the scaling of a
\* reported size that is not 4x4: no logical size within the bounds gives a
\* 4x4 output buffer scale 1 without a viewport.
C18_Witness ==
    \E i \in DOMAIN background_layers :
        /\ background_layers[i].width = 4
        /\ background_layers[i].height = 4
        /\ background_layers[i].workspace_backgrounds # << >>
        /\ background_layers[i].buffer_scale = 1
        /\ background_layers[i].viewport = NoViewport


\* The physical device reports the DRM node of the display server.
MatchesNode(dmabuf_drm_dev, props) ==
    /\ props.drm
    /\ dmabuf_drm_dev # NoDev
    /\ dmabuf_drm_dev \in {props.primary, props.render}

\* The enumerations of the same physical devices in another order.
Reorderings(n) ==
    {p \in [1..n -> 1..n] : \A a \in 1..n, b \in 1..n : p[a] = p[b] => a = b}

\* C19: the score of a probed device depends on the device alone; a device
\* that matches the node of the display server scores higher than every
\* device that does not; the candidates are exactly the probed devices of
\* the highest score, whatever the order of enumeration.
C19_ScoringDeterministic ==
    (call.fn = "device" /\ call.returned) =>
        LET physdevs == call.physdevs
            dev == call.dmabuf_drm_dev
            probed == {k \in DOMAIN physdevs : physdevs[k].probes}
            score(k) == physdev_info(dev, physdevs, k).score
            best == {k \in probed : \A j \in probed : score(j) <= score(k)}
        IN  /\ \A k \in probed, j \in probed :
                  /\ ( /\ MatchesNode(dev, physdevs[k])
                       /\ ~MatchesNode(dev, physdevs[j]) )
                     => score(k) > score(j)
                  /\ physdevs[k] = physdevs[j] => score(k) = score(j)
            /\ Range(call.result.candidates) = best
            /\ \A p \in Reorderings(Len(physdevs)) :
                  LET reordered == [k \in DOMAIN physdevs |-> physdevs[p[k]]]
                  IN  {p[k] : k \in Range(device(dev, reordered).candidates)}
                          = best

\* A discrete GPU that does not match is enumerated before an integrated
\* GPU that does, and the integrated GPU is the only candidate.
C19_Witness ==
    /\ call.fn = "device"
    /\ call.returned
    /\ Len(call.physdevs) >= 2
    /\ call.physdevs[1].typ = "DISCRETE_GPU"
    /\ call.physdevs[1].probes
    /\ ~MatchesNode(call.dmabuf_drm_dev, call.physdevs[1])
    /\ call.physdevs[2].typ = "INTEGRATED_GPU"
    /\ MatchesNode(call.dmabuf_drm_dev, call.physdevs[2])
    /\ call.result.candidates = <<2>>

\* C20: device() tries the candidates of the highest score in the order of
\* enumeration; it returns the first one that can be set up, having tried
\* only the ones before it, and fails only when none can be.
C20_TiedCandidatesFallBack ==
    (call.fn = "device" /\ call.returned) =>
        LET r == call.result
            creates(k) == call.physdevs[r.candidates[k]].creates
        IN  /\ \A a \in DOMAIN r.candidates, b \in DOMAIN r.candidates :
                  a < b => r.candidates[a] < r.candidates[b]
            /\ r.attempts = SubSeq(r.candidates, 1, Len(r.attempts))
            /\ r.ok <=> \E k \in DOMAIN r.candidates : creates(k)
            /\ r.ok =>
                  /\ r.attempts # << >>
                  /\ r.physdev = r.attempts[Len(r.attempts)]
                  /\ creates(Len(r.attempts))
                  /\ \A k \in 1..(Len(r.attempts) - 1) : ~creates(k)
            /\ ~r.ok => r.attempts = r.candidates

\* Three devices tie: the first cannot be set up, the second is returned and
\* the third is not tried.
C20_Witness ==
    /\ call.fn = "device"
    /\ call.returned
    /\ call.result.ok
    /\ call.result.candidates = <<1, 2, 3>>
    /\ call.result.attempts = <<1, 2>>
    /\ call.result.physdev = 2

\* C24: uploader() keeps exactly the candidate modifiers that pass
\* filter_modifier: with the modifier extension it succeeds whenever a
\* candidate passes, the modifiers of the session are the passing candidates,
\* and no modifier is kept for an image higher than the device's maximum
\* height for it.
C24_FilterKeepsSupported ==
    (call.fn = "uploader" /\ call.returned /\ has_image_drm_format_modifier)
    => LET size == call.width * call.height * 4
           passing == {m \in Range(call.drm_format_modifiers) :
                          filter_modifier(call.width, call.height, size, m)}
           kept == Range(call.result.drm_format_modifiers)
       IN  /\ passing # {} => call.result.some
           /\ call.result.some => kept = passing
           /\ \A m \in kept :
                 call.height <= ImageFormatProps[m].max_extent.height

\* C25: the staging region of a session is exactly width * height * 4 bytes
\* long.
C25_StagingExactSize ==
    (call.fn = "uploader" /\ call.returned /\ call.result.some)
    => call.result.len
           = call.result.extent.width * call.result.extent.height * 4

\* C21: Gpu::uploader reuses the first live registered device whose
\* requested, render or primary node equals the requested node and makes no
\* device then; it makes and registers a new device only when no live
\* device matches; the weak entries of released devices are pruned by the
\* call; and no two live devices were made for the same requested node.
C21_DeviceReuse ==
    [][(call.fn = "Gpu" /\ call'.ret.op = "uploader")
       => LET ret == call'.ret
              matching ==
                  {k \in DOMAIN call.devices :
                      /\ call.devices[k] \in DOMAIN call.heap
                      /\ dmabuf_drm_dev_eq(call.heap[call.devices[k]],
                                           ret.node)}
              sessions == {call'.uploaders[u].gpu_device :
                              u \in DOMAIN call'.uploaders
                                        \ DOMAIN call.uploaders}
          IN  /\ matching # {}
                 => /\ ~ret.fresh
                    /\ ret.device = call.devices[FirstIndex(matching)]
                    /\ call'.made = call.made
                    /\ Range(call'.devices)
                           = Range(call.devices) \cap DOMAIN call.heap
              /\ (matching = {} /\ ret.device # 0)
                 => /\ ret.fresh
                    /\ ret.device \notin Range(call.devices)
                    /\ Range(call'.devices)
                           = (Range(call.devices) \cap DOMAIN call.heap)
                                 \cup {ret.device}
              /\ ret.ok => sessions = {ret.device}
              /\ ~ret.ok => sessions = {}
              /\ \A d1, d2 \in DOMAIN call'.heap :
                    call'.heap[d1].dmabuf_drm_dev
                        = call'.heap[d2].dmabuf_drm_dev => d1 = d2
      ]_vars

\* A request is served by a device made for another node of the same GPU
\* while a second device is alive, and a released device's entry is pruned.
C21_Witness ==
    /\ call.fn = "Gpu"
    /\ call.ret.op = "uploader"
    /\ call.ret.ok
    /\ ~call.ret.fresh
    /\ call.heap[call.ret.device].dmabuf_drm_dev # call.ret.node
    /\ Cardinality(DOMAIN call.heap) = 2
    /\ call.made = 3
    /\ Len(call.devices) = 2

C23_FailedAttemptReleasesAll ==
    (call.fn \in {"try_device_with_physdev", "uploader", "upload",
                  "Gpu::uploader"} /\ call.returned)
    => LET statements == Statements(call.fn, has_image_drm_format_modifier)
       IN  /\ ~call.ok => call.resources = {}
           /\ call.ok => call.resources
                  = {statements[k].creates : k \in DOMAIN statements}
                        \ {""}

\* An upload fails after its image and the image memory were created.
C23_Witness ==
    /\ call.fn = "upload"
    /\ call.returned
    /\ ~call.ok
    /\ call.fails_at > 3
    /\ call.resources = {}

\* C26: handle_dmabuf_feedback selects the first tranche, in listed order,
\* whose target device is the main device of the feedback, and its
\* candidate modifiers are, in listed order, the modifiers of the format
\* table entries of that tranche whose format is XRGB8888; indices outside
\* the table are skipped.
C26_FirstMainTranche ==
    (call.fn = "handle_dmabuf_feedback" /\ call.returned)
    => LET feedback == call.feedback
           main == {k \in DOMAIN feedback.tranches :
                       feedback.tranches[k].device = feedback.main_device}
           listed == SelectSeq(
               feedback.tranches[call.index].formats,
               LAMBDA ix :
                   /\ ix < Len(feedback.format_table)
                   /\ feedback.format_table[ix + 1].format
                          = DRM_FORMAT_XRGB8888)
       IN  /\ main = {} => call.index = 0
           /\ main # {}
              => /\ call.index \in main
                 /\ \A k \in main : call.index <= k
                 /\ call.drm_format_modifiers
                        = [j \in DOMAIN listed |->
                              feedback.format_table[listed[j] + 1].modifier]

\* The second tranche is selected although the first one lists more, and an
\* index outside the table and an ARGB8888 entry are skipped.
C26_Witness ==
    /\ call.fn = "handle_dmabuf_feedback"
    /\ call.returned
    /\ call.index = 2
    /\ call.feedback.tranches[1].formats = <<0, 2, 1>>
    /\ call.feedback.tranches[2].formats = <<3, 1, 0>>
    /\ call.drm_format_modifiers = <<ModTiled, DRM_FORMAT_MOD_LINEAR>>

Replaced(wallpaper) ==
    \E output_name \in OutputNames :
        LET i == LayerOf(background_layers, output_name)
        IN  /\ wallpaper \notin AliveThroughLoad(output_name)
            /\ \/ output_name \notin outputs /\ output_name \in outputs'
               \/ /\ i # 0
                  /\ \E feedback \in Feedbacks :
                        \E ok_uploads \in UploadBudgets(output_name) :
                            dmabuf_feedback(i, feedback, ok_uploads)
               \/ /\ i # 0
                  /\ \E failing \in DOMAIN wallpapers :
                        /\ first_layer_binding(background_layers, failing) = i
                        /\ failed(failing)

\* C28: the buffer of a Wallpaper is set once: a host-memory Wallpaper has
\* it from its creation, an accelerator Wallpaper gets it from the `created`
\* event that takes its params, and while a Wallpaper is alive its buffer,
\* once set, and its backing memory do not change.
C28_BufferSetOnce ==
    [][/\ \A w \in DOMAIN wallpapers' :
             LET after == wallpapers'[w]
             IN  /\ after.memory.kind = "WlShm"
                    => after.wl_buffer /\ ~after.memory.params
                 /\ after.wl_buffer => ~after.memory.params
       /\ \A w \in DOMAIN wallpapers \cap DOMAIN wallpapers' :
             LET before == wallpapers[w]
                 after == wallpapers'[w]
             IN  \/ after = before
                 \/ /\ ~before.wl_buffer
                    /\ before.memory.params
                    /\ after = [before EXCEPT !.wl_buffer = TRUE,
                                              !.memory.params = FALSE]
                    /\ created(w)
                 \/ /\ ~before.wl_buffer
                    /\ before.memory.params
                    /\ after = [before EXCEPT !.memory.params = FALSE]
                    /\ failed(w)
                 \/ Replaced(w)]_vars

\* An accelerator Wallpaper two outputs share has got its buffer.
C28_Witness ==
    \E w \in DOMAIN wallpapers :
        /\ wallpapers[w].memory.kind = "Dmabuf"
        /\ wallpapers[w].wl_buffer
        /\ \E i, j \in DOMAIN background_layers :
              /\ i # j
              /\ w \in {bg.wallpaper :
                           bg \in Range(background_layers[i]
                                            .workspace_backgrounds)}
              /\ w \in {bg.wallpaper :
                           bg \in Range(background_layers[j]
                                            .workspace_backgrounds)}

\* C29: exactly one compositor thread is spawned, before the loop is entered.
\* A step of that thread (its sender moves between idle and sent) either
\* appends one WorkspaceVisible to the queue or makes the waker readable, and
\* leaves the outputs, the layers, the Wallpapers, the deployment and the
\* loop's own position as they are; every step that changes outputs, layers
\* or Wallpapers is a step of the loop-owning thread inside a dispatch or
\* inside handle_sway_event.
C29_WorkerOnlySendsAndWakes ==
    [][/\ call'.threads = IF call.pc = "spawn" THEN 1 ELSE call.threads
       /\ call.pc # "spawn" => call.threads = 1
       /\ call'.sender # call.sender =>
              /\ UNCHANGED <<deployment, outputs, background_layers,
                             wallpapers, last>>
              /\ [call' EXCEPT !.sender = call.sender, !.waker = call.waker]
                     = call
              /\ IF call.sender = "idle"
                 THEN /\ call'.waker = call.waker
                      /\ \E output \in OutputNames, workspace \in Workspaces :
                             rx' = Append(rx, WorkspaceVisible(output,
                                                               workspace))
                 ELSE /\ call'.waker
                      /\ rx' = rx
       /\ <<outputs, background_layers, wallpapers>>'
              # <<outputs, background_layers, wallpapers>> =>
              /\ call'.sender = call.sender
              /\ Dispatching \/ call.pc = "recv"
      ]_vars

\* The compositor thread has sent a message and not yet signalled the waker,
\* while the loop's thread is dispatching with a configured layer that
\* shows a Wallpaper.
C29_Witness ==
    /\ call.fn = "run"
    /\ call.threads = 1
    /\ call.sender = "sent"
    /\ ~call.waker
    /\ rx # << >>
    /\ call.pc = "wayland"
    /\ "token_wayland" \in call.ready
    /\ wallpapers # << >>
    /\ \E i \in DOMAIN background_layers : background_layers[i].configured

\* C30: the loop returns only at the signal check of an iteration, when the
\* signal pipe was reported ready and a termination signal was read from it,
\* after the display-server events and the workspace events of that
\* iteration's ready set have been handled; the signal check is entered only
\* from the workspace-event branch, once per poll; a check that reads only
\* USR1 or USR2 goes on to the next iteration; and the delivery of a signal
\* changes nothing but the content of the pipe, wherever the loop is.
C30_TerminationAtSignalCheck ==
    [][/\ (call'.pc = "returned" /\ call.pc # "returned") =>
              /\ call.pc = "signal"
              /\ call.signal_pipe
              /\ "token_signal" \in call.ready
              /\ any_termination(call.signals)
              /\ call.ready \ {"token_signal"} \subseteq call.handled
       /\ (call'.pc = "signal" /\ call.pc # "signal") =>
              /\ call.pc \in {"compositor", "recv"}
              /\ call'.handled = call.ready \ {"token_signal"}
       /\ (call.pc = "signal" /\ call'.pc # "signal"
              /\ ~any_termination(call.signals)) => call'.pc = "flush"
       /\ call'.signals \ call.signals # {} =>
              /\ [call' EXCEPT !.signals = call.signals] = call
              /\ UNCHANGED <<deployment, outputs, background_layers,
                             wallpapers, rx, last>>
      ]_vars

\* The loop has returned from an iteration in which both the display-server
\* socket and the waker were ready and handled, with a layer on an output.
C30_Witness ==
    /\ call.fn = "run"
    /\ call.pc = "returned"
    /\ call.ready = {"token_wayland", "token_compositor", "token_signal"}
    /\ call.handled = {"token_wayland", "token_compositor"}
    /\ background_layers # << >>

\* C31: every output that was announced and not yet removed has exactly one
\* BackgroundLayer, and no other output name has a layer.
C31_OneLayerPerOutput ==
    \A output_name \in OutputNames :
        Cardinality({i \in DOMAIN background_layers :
                         background_layers[i].output_name = output_name})
            = IF output_name \in outputs THEN 1 ELSE 0


\* The Wallpaper the last message of msgs for the layer's output that
\* resolves to a binding of the layer resolves to, NoWallpaper when none does.
RECURSIVE LastResolved(_, _)
LastResolved(msgs, bg_layer) ==
    IF msgs = << >> THEN NoWallpaper
    ELSE LET workspace == msgs[Len(msgs)]
             j == resolve_workspace_bg(bg_layer.workspace_backgrounds,
                      workspace.workspace_name, workspace.workspace_number)
         IN  IF workspace.output = bg_layer.output_name /\ j # 0
             THEN bg_layer.workspace_backgrounds[j].wallpaper
             ELSE LastResolved(SubSeq(msgs, 1, Len(msgs) - 1), bg_layer)

\* C32: when handle_sway_event has handled the activations of a configured
\* layer, the last of which that resolves to a Wallpaper resolves to w, then
\* either w is attached and no target is pending, or w has no buffer yet and
\* is the pending target: the target of an earlier activation is not left
\* pending for created() to attach it later.
C32_LatestActivationWins ==
    [][HandleSwayEvent =>
          \A i \in DOMAIN background_layers :
              LET bg_layer == background_layers[i]
                  w == LastResolved(rx, bg_layer)
                  after == background_layers'[i]
              IN  (bg_layer.configured /\ w # NoWallpaper) =>
                      \/ /\ after.current_wallpaper = w
                         /\ after.queued_wallpaper = NoWallpaper
                      \/ /\ after.current_wallpaper # w
                         /\ after.queued_wallpaper = w
                         /\ ~wallpapers[w].wl_buffer
      ]_vars


\* C33: a configured layer whose wallpapers are loaded and realized, one of
\* them bound to "_default" so that every workspace resolves, and for whose
\* output no visible-workspace message is waiting in the channel, has a
\* wallpaper attached: nothing more has to happen for it to show one.
C33_LoadedLayerShows ==
    \A i \in DOMAIN background_layers :
        LET bg_layer == background_layers[i]
            bound == {bg_layer.workspace_backgrounds[j].wallpaper :
                          j \in DOMAIN bg_layer.workspace_backgrounds}
        IN  (/\ bg_layer.configured
             /\ \E j \in DOMAIN bg_layer.workspace_backgrounds :
                    bg_layer.workspace_backgrounds[j].workspace_name
                        = "_default"
             /\ \A w \in bound : wallpapers[w].wl_buffer
             /\ \A k \in DOMAIN rx : rx[k].output # bg_layer.output_name)
            => bg_layer.current_wallpaper \in bound


\* C34: every Wallpaper bound on an output has a realized buffer or a
\* buffer-params request that is still pending.
C34_BoundIsRealizedOrPending ==
    \A i \in DOMAIN background_layers :
        \A j \in DOMAIN background_layers[i].workspace_backgrounds :
            LET w == background_layers[i].workspace_backgrounds[j].wallpaper
            IN  wallpapers[w].wl_buffer \/ wallpapers[w].memory.params


\* C35: the Wallpapers bound on one output are all of one backend class, all
\* WlShm or all Dmabuf.
C35_OneBackendPerOutput ==
    \A i \in DOMAIN background_layers :
        \A j, k \in DOMAIN background_layers[i].workspace_backgrounds :
            wallpapers[background_layers[i].workspace_backgrounds[j]
                           .wallpaper].memory.kind
                = wallpapers[background_layers[i].workspace_backgrounds[k]
                                 .wallpaper].memory.kind


\* C36: a GpuMemory that GpuUploader::upload has just made is equal to the
\* uploader it was made with in GpuMemory::gpu_uploader_eq, whether or not
\* the device has the image_drm_format_modifier extension.
C36_UploadMatchesItsUploader ==
    [][\A u \in DOMAIN call.uploaders :
           (gpu_upload(u, TRUE) /\ call'.ret.ok) =>
               \A m \in DOMAIN call'.memories \ DOMAIN call.memories :
                   GpuMemory_gpu_uploader_eq(
                       [call'.memories[m] EXCEPT
                            !.gpu_device = call.heap[@]],
                       [call.uploaders[u] EXCEPT
                            !.gpu_device = call.heap[@]])
      ]_vars


\* C37: the wallpaper attached on an output, if any, is a live Wallpaper
\* with a realized buffer, and its layer has been configured; the first
\* configure of a layer sets configured and requests the visible workspace
\* of its output without attaching anything, and a configure of a configured
\* layer changes nothing.
C37_AttachedIsRealizedAndConfigured ==
    /\ [](\A i \in DOMAIN background_layers :
              LET bg_layer == background_layers[i]
              IN  bg_layer.current_wallpaper # NoWallpaper =>
                      /\ bg_layer.configured
                      /\ bg_layer.current_wallpaper \in DOMAIN wallpapers
                      /\ wallpapers[bg_layer.current_wallpaper].wl_buffer)
    /\ [][\A i \in DOMAIN background_layers, workspace \in Workspaces :
              configure(i, workspace) =>
                  IF background_layers[i].configured
                  THEN UNCHANGED <<outputs, background_layers, wallpapers,
                                   rx>>
                  ELSE /\ background_layers' = [background_layers EXCEPT
                                                    ![i].configured = TRUE]
                       /\ rx' = Append(rx, WorkspaceVisible(
                                    background_layers[i].output_name,
                                    workspace))
                       /\ UNCHANGED <<outputs, wallpapers>>
      ]_vars

\* One output shows an accelerator-backed wallpaper on its configured layer
\* while another has its wallpapers loaded on a layer not yet configured.
C37_Witness ==
    /\ \E i \in DOMAIN background_layers :
           /\ background_layers[i].configured
           /\ background_layers[i].current_wallpaper # NoWallpaper
           /\ wallpapers[background_layers[i].current_wallpaper].memory.kind
                  = "Dmabuf"
    /\ \E i \in DOMAIN background_layers :
           /\ ~background_layers[i].configured
           /\ background_layers[i].workspace_backgrounds # << >>


\* C38: no assertion of GpuDevice::dmabuf_drm_dev_eq fails.  Gpu::uploader
\* compares the requested node with every device still alive in Gpu.devices,
\* and the cache lookups compare the device of each GpuMemory with the node
\* of each GpuUploader's device: in each comparison the requested node and
\* the node the device was made for are both present or both absent.
C38_NodeAssertionsHold ==
    /\ [](call.fn = "Gpu" =>
            \A m \in DOMAIN call.memories, u \in DOMAIN call.uploaders :
                dmabuf_drm_dev_asserted(
                    call.heap[call.memories[m].gpu_device],
                    call.heap[call.uploaders[u].gpu_device].dmabuf_drm_dev))
    /\ [][\A dmabuf_drm_dev \in {NoDev, PrimaryNode, RenderNode, OtherNode},
             drm_format_modifiers \in {<<DRM_FORMAT_MOD_LINEAR, ModTiled>>,
                                       <<ModForeign>>} :
              gpu_uploader(dmabuf_drm_dev, drm_format_modifiers) =>
                  \A k \in DOMAIN call.devices :
                      call.devices[k] \in DOMAIN call.heap =>
                          dmabuf_drm_dev_asserted(
                              call.heap[call.devices[k]], dmabuf_drm_dev)
      ]_vars

\* Gpu::uploader has selected a device made earlier, by comparing it with
\* the node of a feedback, while a GpuMemory and a GpuUploader are alive.
C38_Witness ==
    /\ call.fn = "Gpu"
    /\ dmabuf_version >= 4
    /\ call.ret.op = "uploader"
    /\ call.ret.ok
    /\ ~call.ret.fresh
    /\ call.memories # << >>
    /\ call.uploaders # << >>


\* C39: a message in the channel is never left unnoticed: the waker is
\* readable, or the sender is about to wake it, or the loop is draining the
\* channel; the channel only grows at its tail and is only emptied by
\* handle_sway_event, which takes every message in it; and while the loop
\* runs, every message sent is received.
C39_NoLostWorkspaceEvent ==
    /\ [](rx # << >> =>
              call.waker \/ call.sender = "sent" \/ call.pc = "recv")
    /\ [][rx' # rx =>
              \/ try_recv /\ rx' = << >>
              \/ /\ Len(rx') > Len(rx)
                 /\ SubSeq(rx', 1, Len(rx)) = rx]_vars
    /\ (rx # << >>) ~> (rx = << >> \/ call.pc = "returned")

\* The compositor thread has sent a message just after the loop found the
\* channel empty and left handle_sway_event; it has not signalled the waker
\* yet.
C39_Witness ==
    /\ call.fn = "run"
    /\ call.pc = "signal"
    /\ "token_compositor" \in call.handled
    /\ ~call.waker
    /\ call.sender = "sent"
    /\ rx # << >>
====
